---- MODULE Spec2Model ----
(***************************************************************************)
(* Model of the evaluation core of opensearch-genai-sdk-ts:                *)
(*   - adaptScore and its type guards      (src/src/evals/protocol.ts)     *)
(*   - evaluate and formatEvalSummary      (src/src/evals/evaluate.ts)     *)
(*   - score, the score-emission primitive (src/src/decorators.ts 332-384) *)
(*                                                                         *)
(* JavaScript values are modelled as records of one uniform shape          *)
(*   [t, n, d, s, f]                                                       *)
(* t: type tag, n/d: a number as a reduced fraction n/d (d = 0 is NaN),    *)
(* s: the characters of a string, f: the own properties of an object or    *)
(* the elements of an array, as a sequence of <<key, value>> pairs in      *)
(* insertion order.                                                        *)
(***************************************************************************)
EXTENDS Integers, Sequences, FiniteSets, TLC

VARIABLES
    adaptPc,      \* "in": adaptScore not yet applied, "out": applied
    adaptName,    \* the scorerName argument of adaptScore
    adaptIn,      \* the result argument of adaptScore
    adaptOut,     \* what adaptScore did: [threw, v]
    adaptAgain,   \* what adaptScore did with the Score it had returned
    pc,           \* where evaluate is: "start", "loop", "task", "scoring",
                  \* "scorer", "emit", "append", "done", "threw"
    dataKind,     \* options.data is an "array" or a "producer" function
    data,         \* the dataset (what the producer returns, if any)
    scorers,      \* options.scores: the scorers' names, in order
    emitScores,   \* options.emitScores
    i,            \* the item loop's index (0-based)
    scorerIdx,    \* the scorer loop's position (0-based)
    emitIdx,      \* the emission loop's position (0-based)
    summary,      \* the EvalSummary under construction
    evalResult,   \* the EvalResult of the current item
    output,       \* the local variable output
    taskFailed,   \* the local variable taskFailed
    spans,        \* the spans evaluate opened, in order of opening
    itemSpan,     \* handle of the current eval_item span
    callSpan,     \* handle of the eval_task / eval_score span in flight
    emitted,      \* the calls made to the score-emission collaborator
    warnings,     \* the set of messages console.warn was called with
    log,          \* history: what the task and the scorers did
    asyncTask,    \* options.task may return a Promise
    settled,      \* the Promises of the task that have settled, and how
    scPc,         \* a Score on its way out: "scorer", "emit", "done"; a call
                  \* of score() by the application: "call", "done"
    scScore,      \* <<scorerName, scoreObj>>: the Score and its scorer
    scSpans,      \* the spans that carry the Score out of the process
    scOptions,    \* the options of the call of score()
    fmtSummary,   \* the EvalSummary handed to formatEvalSummary
    fmtOut,       \* what the calls of formatEvalSummary returned, in order
    trCalls,      \* the calls of trace wrappers, in order of calling
    trStack,      \* the calls whose wrapped function is running (call stack)
    trSpans,      \* the spans the wrappers started, in order of starting
    trTrace,      \* the trace identity of each of these spans
    trFinished    \* the spans handed to the exporter, in order of ending

adaptVars == <<adaptPc, adaptName, adaptIn, adaptOut, adaptAgain>>

evalVars ==
    <<pc, dataKind, data, scorers, emitScores, i, scorerIdx, emitIdx, summary,
      evalResult,
      output, taskFailed, spans, itemSpan, callSpan, emitted,
      warnings, log, asyncTask, settled>>

scoreVars == <<scPc, scScore, scSpans, scOptions>>

fmtVars == <<fmtSummary, fmtOut>>

traceVars == <<trCalls, trStack, trSpans, trTrace, trFinished>>

restVars == <<scoreVars, fmtVars, traceVars>>

vars == <<adaptVars, evalVars, restVars>>

----------------------------------------------------------------------------
(* Bounds of the model *)

\* largest number of own properties of a raw scorer result
MaxFields == 3

\* largest number of items of a dataset
MaxItems == 2

\* largest number of scorers of a run
MaxScorers == 2

\* largest number of items of a dataset that a producer function returns
MaxProducerItems == 1

\* largest number of items of a dataset whose task may return a Promise
MaxAsyncItems == 1

\* largest number of characters of a rationale
MaxRationale == 1000

\* largest number of calls of formatEvalSummary on one summary
MaxFormatCalls == 2

\* largest number of calls of trace wrappers in one run
MaxCalls == 2

----------------------------------------------------------------------------
(* JavaScript values *)

Undef == [t |-> "undefined", n |-> 0, d |-> 1, s |-> "", f |-> <<>>]

Null == [t |-> "null", n |-> 0, d |-> 1, s |-> "", f |-> <<>>]

Bool(b) == [t |-> "boolean", n |-> IF b THEN 1 ELSE 0, d |-> 1, s |-> "", f |-> <<>>]

Num(k) == [t |-> "number", n |-> k, d |-> 1, s |-> "", f |-> <<>>]

NaN == [t |-> "number", n |-> 0, d |-> 0, s |-> "", f |-> <<>>]

Str(x) == [t |-> "string", n |-> 0, d |-> 1, s |-> x, f |-> <<>>]

\* the k-th Promise created: a Promise has its identity and no own property
Promise(k) == [t |-> "promise", n |-> k, d |-> 1, s |-> "", f |-> <<>>]

Obj(fields) == [t |-> "object", n |-> 0, d |-> 1, s |-> "", f |-> fields]

Digit(k) == <<"0", "1", "2", "3", "4", "5", "6", "7", "8", "9">>[k + 1]

RECURSIVE NatToStr(_)
NatToStr(k) == IF k < 10 THEN Digit(k) ELSE NatToStr(k \div 10) \o Digit(k % 10)

Arr(elems) ==
    [t |-> "array", n |-> 0, d |-> 1, s |-> "",
     f |-> [x \in 1..Len(elems) |-> <<NatToStr(x - 1), elems[x]>>]]

\* typeof v
TypeOf(v) ==
    IF v.t \in {"object", "array", "null", "promise"} THEN "object" ELSE v.t

\* Array.isArray(v)
IsArray(v) == v.t = "array"

\* v === undefined || v === null, the test of the ?? operator
Nullish(v) == v.t \in {"undefined", "null"}

\* a ?? b
Coalesce(a, b) == IF Nullish(a) THEN b ELSE a

\* "k" in v, for v an object or an array
HasKey(v, k) == \E x \in 1..Len(v.f) : v.f[x][1] = k

\* v.k, for v an object or an array; undefined when the property is missing.
Get(v, k) ==
    IF HasKey(v, k)
    THEN v.f[CHOOSE x \in 1..Len(v.f) : v.f[x][1] = k][2]
    ELSE Undef

\* the truthiness test of if (v)
Truthy(v) ==
    CASE v.t = "undefined" -> FALSE
      [] v.t = "null"      -> FALSE
      [] v.t = "boolean"   -> v.n = 1
      [] v.t = "number"    -> v.d # 0 /\ v.n # 0
      [] v.t = "string"    -> v.s # ""
      [] OTHER             -> TRUE

\* String(v) throws a TypeError: v is an object whose toString is not
\* callable (no value of the model is a function, so an own "toString"
\* property shadows Object.prototype.toString with a non-callable, and
\* Object.prototype.valueOf returns the object itself), or an array one of
\* whose elements is converted by join and throws.
RECURSIVE JsStringThrows(_)
JsStringThrows(v) ==
    CASE v.t = "object" -> HasKey(v, "toString")
      [] v.t = "array"  ->
            \E x \in 1..Len(v.f) :
                /\ ~Nullish(v.f[x][2])
                /\ JsStringThrows(v.f[x][2])
      [] OTHER -> FALSE

\* String(v), for a v on which it does not throw.  Numbers of the model
\* that reach String are naturals or NaN.
RECURSIVE JsString(_)
RECURSIVE JoinFrom(_, _)
JoinFrom(v, x) ==
    IF x > Len(v.f) THEN ""
    ELSE (IF x > 1 THEN "," ELSE "")
         \o (IF Nullish(v.f[x][2]) THEN "" ELSE JsString(v.f[x][2]))
         \o JoinFrom(v, x + 1)
JsString(v) ==
    CASE v.t = "undefined" -> "undefined"
      [] v.t = "null"      -> "null"
      [] v.t = "boolean"   -> IF v.n = 1 THEN "true" ELSE "false"
      [] v.t = "number"    -> IF v.d = 0 THEN "NaN" ELSE NatToStr(v.n)
      [] v.t = "string"    -> v.s
      [] v.t = "array"     -> JoinFrom(v, 1)
      [] v.t = "promise"   -> "[object Promise]"
      [] OTHER             -> "[object Object]"

\* s.slice(0, k) on a string
Slice(s, k) == IF Len(s) > k THEN SubSeq(s, 1, k) ELSE s

----------------------------------------------------------------------------
(* protocol.ts: the type guards and adaptScore *)

\* isScore without the `|| "label" in obj` alternative
isScoreValueOnly(value) ==
    IF TypeOf(value) # "object" \/ value.t = "null" THEN FALSE
    ELSE /\ TypeOf(Get(value, "name")) = "string"
         /\ HasKey(value, "value")

isScore(value) ==
    IF TypeOf(value) # "object" \/ value.t = "null" THEN FALSE
    ELSE /\ TypeOf(Get(value, "name")) = "string"
         /\ (HasKey(value, "value") \/ HasKey(value, "label"))

isAutoEvalsResult(value) ==
    IF TypeOf(value) # "object" \/ value.t = "null" THEN FALSE
    ELSE HasKey(value, "score") /\ TypeOf(Get(value, "score")) = "number"

isPhoenixEvalsResult(value) ==
    IF TypeOf(value) # "object" \/ value.t = "null" THEN FALSE
    ELSE /\ TypeOf(Get(value, "label")) = "string"
         /\ TypeOf(Get(value, "explanation")) = "string"

\* the keys the dict-like rule consumes
ConsumedKeys == {"value", "score", "label", "rationale", "explanation"}

\* the filter of the dict-like rule with "explanation" left out of the
\* consumed keys
RestFieldsKeepExplanation(obj) ==
    SelectSeq(obj.f, LAMBDA e : e[1] \notin ConsumedKeys \ {"explanation"})

\* Object.fromEntries(Object.entries(obj).filter(([k]) => !consumed.includes(k)))
RestFields(obj) == SelectSeq(obj.f, LAMBDA e : e[1] \notin ConsumedKeys)

\* what a call returns: a value, or a thrown exception
Ret(v) == [threw |-> FALSE, v |-> v]

Throw == [threw |-> TRUE, v |-> Undef]

\* the autoevals mapping taking the name the raw result carries
fromAutoEvalsOwnName(scorerName, result) ==
    Obj(<< <<"name", Coalesce(Get(result, "name"), Str(scorerName))>>,
           <<"value", Get(result, "score")>>,
           <<"label", Coalesce(Get(result, "choice"), Get(result, "label"))>>,
           <<"rationale", Get(result, "rationale")>>,
           <<"metadata", Coalesce(Get(result, "metadata"), Obj(<<>>))>> >>)

\* the autoevals mapping preferring the label field to the choice field
fromAutoEvalsLabelFirst(scorerName, result) ==
    Obj(<< <<"name", Str(scorerName)>>,
           <<"value", Get(result, "score")>>,
           <<"label", Coalesce(Get(result, "label"), Get(result, "choice"))>>,
           <<"rationale", Get(result, "rationale")>>,
           <<"metadata", Coalesce(Get(result, "metadata"), Obj(<<>>))>> >>)

fromAutoEvals(scorerName, result) ==
    Obj(<< <<"name", Str(scorerName)>>,
           <<"value", Get(result, "score")>>,
           <<"label", Coalesce(Get(result, "choice"), Get(result, "label"))>>,
           <<"rationale", Get(result, "rationale")>>,
           <<"metadata", Coalesce(Get(result, "metadata"), Obj(<<>>))>> >>)

\* the phoenix-evals mapping taking the rationale the way the dict-like
\* rule does
fromPhoenixEvalsRationaleFirst(scorerName, result) ==
    Obj(<< <<"name", Str(scorerName)>>,
           <<"value", Get(result, "score")>>,
           <<"label", Get(result, "label")>>,
           <<"rationale", Coalesce(Get(result, "rationale"), Get(result, "explanation"))>> >>)

fromPhoenixEvals(scorerName, result) ==
    Obj(<< <<"name", Str(scorerName)>>,
           <<"value", Get(result, "score")>>,
           <<"label", Get(result, "label")>>,
           <<"rationale", Get(result, "explanation")>> >>)

fromNumber(scorerName, result) ==
    Obj(<< <<"name", Str(scorerName)>>, <<"value", result>> >>)

fromDict(scorerName, obj) ==
    Obj(<< <<"name", Str(scorerName)>>,
           <<"value", Coalesce(Get(obj, "value"), Get(obj, "score"))>>,
           <<"label", Get(obj, "label")>>,
           <<"rationale", Coalesce(Get(obj, "rationale"), Get(obj, "explanation"))>>,
           <<"metadata", Obj(RestFields(obj))>> >>)

fromFallback(scorerName, result) ==
    IF JsStringThrows(result) THEN Throw
    ELSE Ret(Obj(<< <<"name", Str(scorerName)>>,
                    <<"metadata", Obj(<< <<"raw", Str(JsString(result))>> >>)>> >>))

\* adaptScore testing the phoenix-evals shape before the autoevals shape
adaptScorePhoenixFirst(scorerName, result) ==
    IF isScore(result) THEN Ret(result)
    ELSE IF isPhoenixEvalsResult(result) THEN Ret(fromPhoenixEvals(scorerName, result))
    ELSE IF isAutoEvalsResult(result) THEN Ret(fromAutoEvals(scorerName, result))
    ELSE IF TypeOf(result) = "number" THEN Ret(fromNumber(scorerName, result))
    ELSE IF TypeOf(result) = "object" /\ result.t # "null" /\ ~IsArray(result)
         THEN Ret(fromDict(scorerName, result))
    ELSE fromFallback(scorerName, result)

adaptScore(scorerName, result) ==
    IF isScore(result) THEN Ret(result)
    ELSE IF isAutoEvalsResult(result) THEN Ret(fromAutoEvals(scorerName, result))
    ELSE IF isPhoenixEvalsResult(result) THEN Ret(fromPhoenixEvals(scorerName, result))
    ELSE IF TypeOf(result) = "number" THEN Ret(fromNumber(scorerName, result))
    ELSE IF TypeOf(result) = "object" /\ result.t # "null" /\ ~IsArray(result)
         THEN Ret(fromDict(scorerName, result))
    ELSE fromFallback(scorerName, result)

----------------------------------------------------------------------------
(* The raw scorer results adaptScore is applied to *)

ScorerNames == {"s", "t"}

KeyOrder ==
    <<"name", "value", "score", "label", "choice", "rationale",
      "explanation", "metadata", "extra">>

Keys == {KeyOrder[x] : x \in 1..Len(KeyOrder)}

\* the c-th candidate value of property k: undefined, null, a number, and
\* a value of the type the property is meant to have
FieldVal(k, c) ==
    CASE c = 1 -> Undef
      [] c = 2 -> Null
      [] c = 3 -> IF k = "value" THEN Num(2) ELSE Num(1)
      [] OTHER ->
            CASE k = "name"        -> Str("s")
              [] k = "value"       -> Str("high")
              [] k = "score"       -> Str("low")
              [] k = "label"       -> Str("L")
              [] k = "choice"      -> Str("C")
              [] k = "rationale"   -> Str("R")
              [] k = "explanation" -> Str("E")
              [] k = "metadata"    -> Obj(<< <<"m", Str("v")>> >>)
              [] OTHER             -> Str("X")

Reverse(q) == [x \in 1..Len(q) |-> q[Len(q) + 1 - x]]

\* the object with the properties ks, valued by the choice c, written in
\* the order of KeyOrder or in the opposite order
MkObj(ks, c, fwd) ==
    LET keys == SelectSeq(KeyOrder, LAMBDA k : k \in ks)
        fs == [x \in 1..Len(keys) |-> <<keys[x], FieldVal(keys[x], c[keys[x]])>>]
    IN  Obj(IF fwd THEN fs ELSE Reverse(fs))

KeySets == { x \in SUBSET Keys : Cardinality(x) <= MaxFields }

\* an object String() throws on, e.g. the parsed JSON {"toString": 1}
Unprintable == Obj(<< <<"toString", Num(1)>> >>)

RawOthers ==
    { Undef, Null, Bool(TRUE), Bool(FALSE), Num(0), Num(1), NaN,
      Str(""), Str("x"),
      Arr(<<>>), Arr(<<Num(1), Str("x")>>), Arr(<<Null, Undef, Num(2)>>),
      Arr(<<Obj(<<>>)>>), Arr(<<Unprintable>>),
      Unprintable,
      Obj(<< <<"toString", Num(1)>>, <<"value", Num(1)>> >>) }


----------------------------------------------------------------------------
(* evaluate.ts: the data of a run *)

\* options.name
EvalName == "qa-eval"

\* the trace identity shared by the spans of a run
TraceId == "trace-1"

\* String(err) of the Error a task or a scorer throws
ErrorText == "Error: boom"

\* String(err) of the TypeError of a failed conversion to a primitive
TypeErrorText == "TypeError: Cannot convert object to primitive value"

\* the characters of an input or output kept on a span
PreviewLimit == 1000

\* the characters of a rationale kept on a span
RationaleLimit == 500

\* the rows of a dataset: with and without an expected value, with an
\* expected value and with an input that String() cannot convert
Datums ==
    { Obj(<< <<"input", Str("2+2?")>>, <<"expected", Str("4")>> >>),
      Obj(<< <<"input", Str("q")>> >>),
      Obj(<< <<"input", Str("r")>>, <<"expected", Unprintable>> >>),
      Obj(<< <<"input", Unprintable>>, <<"expected", Str("4")>> >>) }

\* what a call of the task does: it returns a value or throws an Error
TaskOutcomes == { Ret(Str("4")), Ret(Unprintable), Throw }

\* what a call of a scorer does: it returns a raw result or throws an Error
ScorerOutcomes ==
    { Ret(Num(1)), Ret(Num(2)),
      Ret(Obj(<< <<"name", Str("s")>>, <<"label", Str("L")>> >>)),
      Ret(Obj(<< <<"value", Str("high")>> >>)),
      Ret(Arr(<<Unprintable>>)),
      Ret(Obj(<< <<"rationale", Num(42)>> >>)),
      Throw }

\* the scorer lists of a run, up to the renaming of the scorers
ScorerLists ==
    { q \in UNION { [1..m -> ScorerNames] : m \in 0..MaxScorers } :
        Len(q) > 0 => q[1] = "s" }

EmptyResult ==
    [input |-> Undef, expected |-> Undef, hasOutput |-> FALSE, output |-> Undef,
     scores |-> <<>>, hasError |-> FALSE, error |-> ""]

EmptySummary ==
    [name |-> EvalName, results |-> <<>>, averages |-> <<>>, total |-> 0,
     errors |-> 0]

----------------------------------------------------------------------------
(* The tracing collaborator: spans *)

\* tracer.startActiveSpan(name, {attributes}, ...) under the active span
StartSpan(sp, name, parent, attrs) ==
    Append(sp, [name |-> name, parent |-> parent, attrs |-> attrs,
                status |-> "UNSET", message |-> "", exceptions |-> 0,
                ended |-> 0])

\* span.setAttribute(key, val)
SetAttr(sp, id, key, val) ==
    [sp EXCEPT ![id].attrs = Append(@, <<key, val>>)]

\* span.setStatus({code: ERROR, message}); span.recordException(err)
SetError(sp, id, msg) ==
    [sp EXCEPT ![id].status = "ERROR", ![id].message = msg,
               ![id].exceptions = @ + 1]

\* span.end()
EndSpan(sp, id) == [sp EXCEPT ![id].ended = @ + 1]

----------------------------------------------------------------------------
(* evaluate.ts: helpers of evaluate *)

\* record[key] = val on an object used as an ordered mapping: a key that
\* is already there keeps its place
SetEntry(m, key, val) ==
    IF \E x \in 1..Len(m) : m[x][1] = key
    THEN [x \in 1..Len(m) |-> IF m[x][1] = key THEN <<key, val>> ELSE m[x]]
    ELSE Append(m, <<key, val>>)

HasEntry(m, key) == \E x \in 1..Len(m) : m[x][1] = key

GetEntry(m, key) == m[CHOOSE x \in 1..Len(m) : m[x][1] = key][2]

\* summary.results.unshift(evalResult)
PushResultFront(results, er) == <<er>> \o results

\* summary.results.push(evalResult)
PushResult(results, er) == Append(results, er)

\* a + b of the reduce callback throws: b is an object with no primitive value
JsAddThrows(b) == b.t \in {"object", "array"} /\ JsStringThrows(b)

\* a + b of the reduce callback, a being the accumulator (a number or a
\* string): string concatenation if either operand is a string once made
\* primitive, the sum of the operands made numbers otherwise
JsAdd(a, b) ==
    LET pb == IF b.t \in {"object", "array"} THEN Str(JsString(b)) ELSE b
    IN  IF a.t = "string" \/ pb.t = "string"
        THEN Str(JsString(a) \o JsString(pb))
        ELSE IF a.d = 0 \/ (pb.t = "number" /\ pb.d = 0) \/ pb.t = "undefined"
             THEN NaN
             ELSE Num(a.n + pb.n)

IsDigits(s) == \A x \in 1..Len(s) : \E c \in 0..9 : SubSeq(s, x, x) = Digit(c)

DigitOf(c) == CHOOSE x \in 0..9 : Digit(x) = c

RECURSIVE ParseNat(_, _)
ParseNat(s, x) ==
    IF x = 0 THEN 0 ELSE 10 * ParseNat(s, x - 1) + DigitOf(SubSeq(s, x, x))

\* Number(s) for a string of letters and digits: the number written in
\* decimal digits, 0 for the empty string, NaN for anything else
StrToNum(s) == IF IsDigits(s) THEN Num(ParseNat(s, Len(s))) ELSE NaN

RECURSIVE Gcd(_, _)
Gcd(a, b) == IF b = 0 THEN a ELSE Gcd(b, a % b)

\* x / len for len >= 1, as a fraction in lowest terms
JsDiv(x, len) ==
    LET nx == IF x.t = "string" THEN StrToNum(x.s) ELSE x
        g == Gcd(nx.n, len)
    IN  IF nx.d = 0 THEN NaN
        ELSE [t |-> "number", n |-> nx.n \div g, d |-> len \div g,
              s |-> "", f |-> <<>>]

\* values.reduce((a, b) => a + b, 0), from the x-th value on
RECURSIVE ReduceFrom(_, _, _)
ReduceFrom(acc, values, x) ==
    IF x > Len(values) THEN acc
    ELSE ReduceFrom(JsAdd(acc, values[x]), values, x + 1)

\* values.reduce((a, b) => a + b, 0) / values.length
Average(values) == JsDiv(ReduceFrom(Num(0), values, 1), Len(values))

\* the loop filling scoreTotals over one result's entries, from the x-th
RECURSIVE TotalsOfEntries(_, _, _)
TotalsOfEntries(tot, entries, x) ==
    IF x > Len(entries) THEN tot
    ELSE LET name == entries[x][1]
             val == Get(entries[x][2], "value")
             next == IF val = Undef THEN tot
                     ELSE IF HasEntry(tot, name)
                          THEN SetEntry(tot, name, Append(GetEntry(tot, name), val))
                          ELSE Append(tot, <<name, <<val>>>>)
         IN  TotalsOfEntries(next, entries, x + 1)

\* the loop filling scoreTotals over summary.results, from the x-th result
RECURSIVE ScoreTotals(_, _, _)
ScoreTotals(tot, results, x) ==
    IF x > Len(results) THEN tot
    ELSE ScoreTotals(TotalsOfEntries(tot, results[x].scores, 1), results, x + 1)

\* summary.averages, filled from scoreTotals
Averages(results) ==
    LET tot == ScoreTotals(<<>>, results, 1)
    IN  [x \in 1..Len(tot) |-> <<tot[x][1], Average(tot[x][2])>>]

\* computing the averages throws: some value cannot be added
AveragesThrow(results) ==
    LET tot == ScoreTotals(<<>>, results, 1)
    IN  \E x \in 1..Len(tot) : \E y \in 1..Len(tot[x][2]) :
            JsAddThrows(tot[x][2][y])

\* evalSpan.setAttribute(`eval.avg.${name}`, avg), for each average from
\* the x-th on
RECURSIVE SetAvgAttrs(_, _, _)
SetAvgAttrs(sp, avgs, x) ==
    IF x > Len(avgs) THEN sp
    ELSE SetAvgAttrs(SetAttr(sp, 1, "eval.avg." \o avgs[x][1], avgs[x][2]),
                     avgs, x + 1)

\* the attributes set on a scorer span from the recorded Score; the
\* rationale's slice throws when the rationale is truthy and has no slice
\* method (it is neither a string nor an array)
RationaleThrows(scoreObj) ==
    LET rat == Get(scoreObj, "rationale")
    IN  Truthy(rat) /\ rat.t \notin {"string", "array"}

ScoreAttrs(sp, id, scoreObj) ==
    LET val == Get(scoreObj, "value")
        lab == Get(scoreObj, "label")
        rat == Get(scoreObj, "rationale")
        s1 == IF val # Undef THEN SetAttr(sp, id, "eval.score.value", val) ELSE sp
        s2 == IF Truthy(lab) THEN SetAttr(s1, id, "eval.score.label", lab) ELSE s1
    IN  IF Truthy(rat) /\ ~RationaleThrows(scoreObj)
        THEN SetAttr(s2, id, "eval.score.rationale",
                     IF rat.t = "string" THEN Str(Slice(rat.s, RationaleLimit))
                     ELSE rat)
        ELSE s2

\* the scorers taken from the last to the first
ScorerAtReversed(list, idx) == list[Len(list) - idx]

\* line 192, for (const scorer of scorers): the name of the scorer the
\* loop is at
ScorerAt(list, idx) == list[idx + 1]

\* the scorers run although the task failed
AfterTaskAlwaysScores(failed) == "scoring"

\* line 190, if (!taskFailed): where the item goes on after its task
AfterTask(failed) == IF failed THEN "append" ELSE "scoring"

\* the argument of scorer.score
ScorerArgs(inputVal, out, expectedVal) ==
    Obj(<< <<"input", Str(JsString(inputVal))>>,
           <<"output", Str(JsString(out))>>,
           <<"expected", IF expectedVal # Undef THEN Str(JsString(expectedVal))
                         ELSE Undef>> >>)

\* the argument of submitScore with the item counted from 1
EmitArgsOneBased(entry, spanId, idx) ==
    [name |-> entry[1], value |-> Get(entry[2], "value"),
     traceId |-> TraceId, spanId |-> spanId,
     label |-> Get(entry[2], "label"), rationale |-> Get(entry[2], "rationale"),
     source |-> "eval", eval_name |-> EvalName, item_index |-> idx + 1]

\* the argument of submitScore for the entry <<scorerName, scoreObj>>
EmitArgs(entry, spanId, idx) ==
    [name |-> entry[1], value |-> Get(entry[2], "value"),
     traceId |-> TraceId, spanId |-> spanId,
     label |-> Get(entry[2], "label"), rationale |-> Get(entry[2], "rationale"),
     source |-> "eval", eval_name |-> EvalName, item_index |-> idx]

\* decorators.ts, score(): the call throws by itself when the rationale is
\* truthy and has no slice method
ScoreCallThrows(args) ==
    Truthy(args.rationale) /\ args.rationale.t \notin {"string", "array"}

\* line 170: result instanceof Promise
IsPromise(v) == v.t = "promise"

\* line 177, output = result: the output of the item is what the task
\* returned, a Promise included
TaskOutput(result) == result

\* console.warn("Async task detected in sync evaluate(). ...")
AsyncWarning == <<"async task detected", "", 0>>

\* console.warn(`Scorer ${scorerName} failed on item ${i}: ${err}`)
ScorerWarning(scorerName, idx) == <<"scorer failed", scorerName, idx>>

\* console.warn(`Failed to emit score ${scorerName}: ${err}`)
EmitWarning(scorerName) == <<"failed to emit score", scorerName, 0>>

Event(ev, item, idx, name, how, val) ==
    [ev |-> ev, item |-> item, idx |-> idx, name |-> name, how |-> how,
     val |-> val]

----------------------------------------------------------------------------
(* evaluate.ts: evaluate, one action per step between two calls of a       *)
(* collaborator (the dataset producer, the task, a scorer, submitScore)    *)

InitEval ==
    /\ pc = "start"
    /\ dataKind \in {"array", "producer"}
    /\ data \in UNION { [1..m -> Datums] : m \in 0..MaxItems }
    /\ dataKind = "producer" => Len(data) <= MaxProducerItems
    /\ asyncTask \in BOOLEAN
    /\ asyncTask => Len(data) <= MaxAsyncItems
    /\ settled = {}
    /\ scorers \in ScorerLists
    /\ emitScores \in BOOLEAN
    /\ i = 0 /\ scorerIdx = 0 /\ emitIdx = 0
    /\ summary = EmptySummary
    /\ evalResult = EmptyResult
    /\ output = Undef
    /\ taskFailed = FALSE
    /\ spans = <<>>
    /\ itemSpan = 0 /\ callSpan = 0
    /\ emitted = <<>>
    /\ warnings = {}
    /\ log = <<>>

\* lines 119-138: the dataset is resolved, the summary built, the run span
\* opened
ResolveData ==
    /\ pc = "start"
    /\ summary' = [EmptySummary EXCEPT !.total = Len(data)]
    /\ spans' = StartSpan(spans, "evaluate", 0,
                    << <<"eval.name", Str(EvalName)>>,
                       <<"eval.dataset_size", Num(Len(data))>>,
                       <<"eval.scorer_count", Num(Len(scorers))>> >>)
    /\ log' = IF dataKind = "producer"
              THEN Append(log, Event("data", 0, 0, "", "returned", Undef))
              ELSE log
    /\ pc' = "loop"
    /\ UNCHANGED <<dataKind, data, scorers, emitScores, i, scorerIdx, emitIdx, evalResult,
                   output, taskFailed, itemSpan, callSpan, emitted,
                   warnings>>
    /\ UNCHANGED <<adaptVars, restVars>>
    /\ UNCHANGED <<asyncTask, settled>>

\* the producer throws after the run span has been opened
ProducerThrowsInsideSpan ==
    /\ pc = "start"
    /\ dataKind = "producer"
    /\ spans' = StartSpan(spans, "evaluate", 0, << <<"eval.name", Str(EvalName)>> >>)
    /\ log' = Append(log, Event("data", 0, 0, "", "threw", Undef))
    /\ pc' = "threw"
    /\ UNCHANGED <<dataKind, data, scorers, emitScores, i, scorerIdx, emitIdx, summary,
                   evalResult, output, taskFailed, itemSpan, callSpan,
                   emitted, warnings>>
    /\ UNCHANGED <<adaptVars, restVars>>
    /\ UNCHANGED <<asyncTask, settled>>

\* line 119: the producer throws, and the exception leaves evaluate
ProducerThrows ==
    /\ pc = "start"
    /\ dataKind = "producer"
    /\ log' = Append(log, Event("data", 0, 0, "", "threw", Undef))
    /\ pc' = "threw"
    /\ UNCHANGED <<dataKind, data, scorers, emitScores, i, scorerIdx, emitIdx, summary,
                   evalResult, output, taskFailed, spans, itemSpan, callSpan,
                   emitted, warnings>>
    /\ UNCHANGED <<adaptVars, restVars>>
    /\ UNCHANGED <<asyncTask, settled>>

\* lines 139-165: the next item's result is created, its item span and its
\* task span are opened and the task is called.  String(inputVal) of the
\* item span's attributes is outside every try block.
OpenItem ==
    /\ pc = "loop"
    /\ i < Len(data)
    /\ LET inputVal == Get(data[i + 1], "input")
           expectedVal == Get(data[i + 1], "expected")
           s1 == StartSpan(spans, "eval_item", 1,
                     << <<"eval.item.index", Num(i)>>,
                        <<"eval.item.input",
                          Str(Slice(JsString(inputVal), PreviewLimit))>> >>)
       IN  /\ evalResult' = [EmptyResult EXCEPT !.input = inputVal,
                                                !.expected = expectedVal]
           /\ IF JsStringThrows(inputVal)
              THEN /\ pc' = "threw"
                   /\ UNCHANGED <<spans, itemSpan, callSpan>>
              ELSE /\ pc' = "task"
                   /\ spans' = StartSpan(s1, "eval_task", Len(s1), <<>>)
                   /\ itemSpan' = Len(s1)
                   /\ callSpan' = Len(s1) + 1
    /\ output' = Undef
    /\ taskFailed' = FALSE
    /\ UNCHANGED <<dataKind, data, scorers, emitScores, i, scorerIdx, emitIdx, summary,
                   emitted, warnings, log>>
    /\ UNCHANGED <<adaptVars, restVars>>
    /\ UNCHANGED <<asyncTask, settled>>

\* lines 165-190: the task returns or throws; the catch block also catches
\* String(output) of the task span's attribute
TaskDone ==
    /\ pc = "task"
    /\ \E r \in TaskOutcomes \cup (IF asyncTask THEN {Ret(Promise(i))} ELSE {}) :
         LET caught == r.threw \/ JsStringThrows(r.v)
             errText == IF r.threw THEN ErrorText ELSE TypeErrorText
             er1 == IF r.threw THEN evalResult
                    ELSE [evalResult EXCEPT !.hasOutput = TRUE,
                                            !.output = TaskOutput(r.v)]
         IN  /\ output' = IF r.threw THEN output ELSE TaskOutput(r.v)
             /\ warnings' = IF ~r.threw /\ IsPromise(r.v)
                            THEN warnings \cup {AsyncWarning}
                            ELSE warnings
             /\ evalResult' = IF caught
                              THEN [er1 EXCEPT !.hasError = TRUE, !.error = errText]
                              ELSE er1
             /\ summary' = IF caught THEN [summary EXCEPT !.errors = @ + 1]
                           ELSE summary
             /\ taskFailed' = caught
             /\ spans' = EndSpan(
                            IF caught THEN SetError(spans, callSpan, errText)
                            ELSE SetAttr(spans, callSpan, "eval.task.output",
                                         Str(Slice(JsString(TaskOutput(r.v)),
                                                   PreviewLimit))),
                            callSpan)
             /\ log' = Append(log, Event("task", i, 0, "",
                                         IF r.threw THEN "threw" ELSE "returned", r.v))
             /\ pc' = AfterTask(caught)
    /\ scorerIdx' = 0
    /\ emitIdx' = 0
    /\ UNCHANGED <<dataKind, data, scorers, emitScores, i, itemSpan, callSpan,
                   emitted>>
    /\ UNCHANGED <<adaptVars, restVars>>
    /\ UNCHANGED <<asyncTask, settled>>

\* lines 192-204: the next scorer's span is opened, its argument is built
\* inside the try block and the scorer is called; when String(expectedVal)
\* throws the catch block runs and the scorer is not called
BeginScorer ==
    /\ pc = "scoring"
    /\ scorerIdx < Len(scorers)
    /\ LET scorerName == ScorerAt(scorers, scorerIdx)
           s1 == StartSpan(spans, "eval_score." \o scorerName, itemSpan,
                           << <<"eval.scorer.name", Str(scorerName)>> >>)
           id == Len(s1)
       IN  IF evalResult.expected # Undef /\ JsStringThrows(evalResult.expected)
           THEN /\ spans' = EndSpan(SetError(s1, id, TypeErrorText), id)
                /\ warnings' = warnings \cup {ScorerWarning(scorerName, i)}
                /\ log' = Append(log, Event("scorer", i, scorerIdx, scorerName,
                                            "skipped", Undef))
                /\ scorerIdx' = scorerIdx + 1
                /\ pc' = "scoring"
                /\ UNCHANGED callSpan
           ELSE /\ spans' = s1
                /\ callSpan' = id
                /\ log' = Append(log, Event("call", i, scorerIdx, scorerName, "called",
                                            ScorerArgs(evalResult.input, output,
                                                       evalResult.expected)))
                /\ pc' = "scorer"
                /\ UNCHANGED <<warnings, scorerIdx>>
    /\ UNCHANGED <<dataKind, data, scorers, emitScores, i, emitIdx, summary,
                   evalResult, output, taskFailed, itemSpan, emitted>>
    /\ UNCHANGED <<adaptVars, restVars>>
    /\ UNCHANGED <<asyncTask, settled>>

\* lines 200-229: the scorer returns or throws; its result is adapted and
\* recorded, the span's attributes are set, the catch block marks the span
ScorerDone ==
    /\ pc = "scorer"
    /\ \E r \in ScorerOutcomes :
         LET scorerName == ScorerAt(scorers, scorerIdx)
             a == IF r.threw THEN Throw ELSE adaptScore(scorerName, r.v)
             recorded == ~a.threw
             caught == a.threw \/ RationaleThrows(a.v)
             s1 == IF recorded THEN ScoreAttrs(spans, callSpan, a.v) ELSE spans
             s2 == IF caught
                   THEN SetError(s1, callSpan,
                                 IF r.threw THEN ErrorText ELSE TypeErrorText)
                   ELSE s1
         IN  /\ evalResult' = IF recorded
                              THEN [evalResult EXCEPT
                                      !.scores = SetEntry(@, scorerName, a.v)]
                              ELSE evalResult
             /\ spans' = EndSpan(s2, callSpan)
             /\ warnings' = IF caught
                            THEN warnings \cup {ScorerWarning(scorerName, i)}
                            ELSE warnings
             /\ log' = Append(log, Event("scorer", i, scorerIdx, scorerName,
                                         IF r.threw THEN "threw" ELSE "returned",
                                         r.v))
    /\ scorerIdx' = scorerIdx + 1
    /\ pc' = "scoring"
    /\ UNCHANGED <<dataKind, data, scorers, emitScores, i, emitIdx, summary, output,
                   taskFailed, itemSpan, callSpan, emitted>>
    /\ UNCHANGED <<adaptVars, restVars>>
    /\ UNCHANGED <<asyncTask, settled>>

\* the scorer loop is over, and emitScores is not consulted
ScoringDoneIgnoresFlag ==
    /\ pc = "scoring"
    /\ scorerIdx >= Len(scorers)
    /\ pc' = "emit"
    /\ emitIdx' = 0
    /\ UNCHANGED <<dataKind, data, scorers, emitScores, i, scorerIdx, summary,
                   evalResult, output, taskFailed, spans, itemSpan, callSpan,
                   emitted, warnings, log>>
    /\ UNCHANGED <<adaptVars, restVars>>
    /\ UNCHANGED <<asyncTask, settled>>

\* lines 230-238: the scorer loop is over
ScoringDone ==
    /\ pc = "scoring"
    /\ scorerIdx >= Len(scorers)
    /\ pc' = IF emitScores THEN "emit" ELSE "append"
    /\ emitIdx' = 0
    /\ UNCHANGED <<dataKind, data, scorers, emitScores, i, scorerIdx, summary,
                   evalResult, output, taskFailed, spans, itemSpan, callSpan,
                   emitted, warnings, log>>
    /\ UNCHANGED <<adaptVars, restVars>>
    /\ UNCHANGED <<asyncTask, settled>>

\* one try block around the whole emission loop: a failed emission ends
\* the loop
EmitScoreStopsOnFailure ==
    /\ pc = "emit"
    /\ emitIdx < Len(evalResult.scores)
    /\ \E collaboratorThrows \in BOOLEAN :
         LET args == EmitArgs(evalResult.scores[emitIdx + 1], itemSpan, i)
             caught == collaboratorThrows \/ ScoreCallThrows(args)
         IN  /\ emitted' = Append(emitted, args)
             /\ warnings' = IF caught
                            THEN warnings \cup {EmitWarning(args.name)}
                            ELSE warnings
             /\ log' = Append(log, Event("emit", i, emitIdx, args.name, "called",
                                         Undef))
             /\ emitIdx' = IF caught THEN Len(evalResult.scores) ELSE emitIdx + 1
    /\ UNCHANGED <<pc, dataKind, data, scorers, emitScores, i, scorerIdx, summary,
                   evalResult, output, taskFailed, spans, itemSpan, callSpan>>
    /\ UNCHANGED <<adaptVars, restVars>>
    /\ UNCHANGED <<asyncTask, settled>>

\* lines 238-255: the next recorded score is handed to submitScore, which
\* returns or throws; the catch block only warns
EmitScore ==
    /\ pc = "emit"
    /\ emitIdx < Len(evalResult.scores)
    /\ \E collaboratorThrows \in BOOLEAN :
         LET args == EmitArgs(evalResult.scores[emitIdx + 1], itemSpan, i)
             caught == collaboratorThrows \/ ScoreCallThrows(args)
         IN  /\ emitted' = Append(emitted, args)
             /\ warnings' = IF caught
                            THEN warnings \cup {EmitWarning(args.name)}
                            ELSE warnings
             /\ log' = Append(log, Event("emit", i, emitIdx, args.name, "called",
                                         Undef))
    /\ emitIdx' = emitIdx + 1
    /\ UNCHANGED <<pc, dataKind, data, scorers, emitScores, i, scorerIdx, summary,
                   evalResult, output, taskFailed, spans, itemSpan, callSpan>>
    /\ UNCHANGED <<adaptVars, restVars>>
    /\ UNCHANGED <<asyncTask, settled>>

\* line 255: the emission loop is over
EmitDone ==
    /\ pc = "emit"
    /\ emitIdx >= Len(evalResult.scores)
    /\ pc' = "append"
    /\ UNCHANGED <<dataKind, data, scorers, emitScores, i, scorerIdx, emitIdx, summary,
                   evalResult, output, taskFailed, spans, itemSpan, callSpan,
                   emitted, warnings, log>>
    /\ UNCHANGED <<adaptVars, restVars>>
    /\ UNCHANGED <<asyncTask, settled>>

\* the item's result is appended and its span left open
AppendResultKeepsSpanOpen ==
    /\ pc = "append"
    /\ summary' = [summary EXCEPT !.results = PushResult(@, evalResult)]
    /\ log' = Append(log, Event("append", i, 0, "", "returned", Undef))
    /\ i' = i + 1
    /\ pc' = "loop"
    /\ UNCHANGED <<dataKind, data, scorers, emitScores, scorerIdx, emitIdx, evalResult,
                   output, taskFailed, spans, itemSpan, callSpan, emitted,
                   warnings>>
    /\ UNCHANGED <<adaptVars, restVars>>
    /\ UNCHANGED <<asyncTask, settled>>

\* lines 259-263: the item's result is appended and its span ended
AppendResult ==
    /\ pc = "append"
    /\ summary' = [summary EXCEPT !.results = PushResult(@, evalResult)]
    /\ spans' = EndSpan(spans, itemSpan)
    /\ log' = Append(log, Event("append", i, 0, "", "returned", Undef))
    /\ i' = i + 1
    /\ pc' = "loop"
    /\ UNCHANGED <<dataKind, data, scorers, emitScores, scorerIdx, emitIdx, evalResult,
                   output, taskFailed, itemSpan, callSpan, emitted,
                   warnings>>
    /\ UNCHANGED <<adaptVars, restVars>>
    /\ UNCHANGED <<asyncTask, settled>>

\* the run span is ended without the error count
FinishWithoutErrorCount ==
    /\ pc = "loop"
    /\ i >= Len(data)
    /\ IF AveragesThrow(summary.results)
       THEN /\ pc' = "threw"
            /\ UNCHANGED <<summary, spans>>
       ELSE LET avgs == Averages(summary.results)
            IN  /\ summary' = [summary EXCEPT !.averages = avgs]
                /\ spans' = EndSpan(SetAvgAttrs(spans, avgs, 1), 1)
                /\ pc' = "done"
    /\ UNCHANGED <<dataKind, data, scorers, emitScores, i, scorerIdx, emitIdx, evalResult,
                   output, taskFailed, itemSpan, callSpan, emitted,
                   warnings, log>>
    /\ UNCHANGED <<adaptVars, restVars>>
    /\ UNCHANGED <<asyncTask, settled>>

\* lines 265-289: the averages are computed and set on the run span, the
\* run span is ended and the summary returned
Finish ==
    /\ pc = "loop"
    /\ i >= Len(data)
    /\ IF AveragesThrow(summary.results)
       THEN /\ pc' = "threw"
            /\ UNCHANGED <<summary, spans>>
       ELSE LET avgs == Averages(summary.results)
            IN  /\ summary' = [summary EXCEPT !.averages = avgs]
                /\ spans' = EndSpan(
                               SetAttr(SetAvgAttrs(spans, avgs, 1), 1,
                                       "eval.errors", Num(summary.errors)),
                               1)
                /\ pc' = "done"
    /\ UNCHANGED <<dataKind, data, scorers, emitScores, i, scorerIdx, emitIdx, evalResult,
                   output, taskFailed, itemSpan, callSpan, emitted,
                   warnings, log>>
    /\ UNCHANGED <<adaptVars, restVars>>
    /\ UNCHANGED <<asyncTask, settled>>

\* a Promise the task returned resolves or rejects; evaluate has attached
\* no reaction to it
Settle ==
    /\ asyncTask
    /\ \E e \in {log[p] : p \in 1..Len(log)} : \E how \in {"resolved", "rejected"} :
          /\ e.ev = "task" /\ e.how = "returned" /\ IsPromise(e.val)
          /\ \A z \in settled : z[1] # e.val
          /\ settled' = settled \cup {<<e.val, how>>}
    /\ UNCHANGED <<pc, dataKind, data, scorers, emitScores, i, scorerIdx, emitIdx,
                   summary, evalResult, output, taskFailed, spans, itemSpan,
                   callSpan, emitted, warnings, log, asyncTask>>
    /\ UNCHANGED <<adaptVars, restVars>>

----------------------------------------------------------------------------
(* adaptScore applied to one raw result *)

\* the state of evaluate while adaptScore alone is exercised
EvalIdle ==
    /\ pc = "idle"
    /\ dataKind = "array"
    /\ data = <<>>
    /\ scorers = <<>>
    /\ emitScores = FALSE
    /\ i = 0 /\ scorerIdx = 0 /\ emitIdx = 0
    /\ summary = EmptySummary
    /\ evalResult = EmptyResult
    /\ output = Undef
    /\ taskFailed = FALSE
    /\ spans = <<>>
    /\ itemSpan = 0 /\ callSpan = 0
    /\ emitted = <<>>
    /\ warnings = {}
    /\ log = <<>>
    /\ asyncTask = FALSE
    /\ settled = {}

\* a ScoreOptions object: each option is a value, undefined when it is
\* not supplied
NoOptions ==
    [name |-> Undef, value |-> Undef, traceId |-> Undef, spanId |-> Undef,
     label |-> Undef, dataType |-> Undef, source |-> Undef, comment |-> Undef,
     rationale |-> Undef, metadata |-> Undef]

\* no Score is on its way out
ScoreIdle ==
    /\ scPc = "idle"
    /\ scScore = <<"s", Undef>>
    /\ scSpans = <<>>
    /\ scOptions = NoOptions

\* formatEvalSummary is not called
FormatIdle ==
    /\ fmtSummary = EmptySummary
    /\ fmtOut = <<>>

\* no trace wrapper is called
TraceIdle ==
    /\ trCalls = <<>>
    /\ trStack = <<>>
    /\ trSpans = <<>>
    /\ trTrace = <<>>
    /\ trFinished = <<>>

\* the state of the adaptScore exerciser while evaluate runs
AdaptIdle ==
    /\ adaptPc = "idle"
    /\ adaptName = "s"
    /\ adaptIn = Undef
    /\ adaptOut = Throw
    /\ adaptAgain = Throw

InitAdapt ==
    /\ adaptPc = "in"
    /\ adaptName \in ScorerNames
    /\ \/ adaptIn \in RawOthers
       \/ \E ks \in KeySets :
             \E c \in [ks -> 1..4], fwd \in BOOLEAN : adaptIn = MkObj(ks, c, fwd)
    /\ adaptOut = Throw
    /\ adaptAgain = Throw
    /\ EvalIdle
    /\ ScoreIdle
    /\ FormatIdle
    /\ TraceIdle

Adapt ==
    /\ adaptPc = "in"
    /\ adaptOut' = adaptScore(adaptName, adaptIn)
    /\ adaptPc' = "out"
    /\ UNCHANGED <<adaptName, adaptIn, adaptAgain>>
    /\ UNCHANGED <<evalVars, restVars>>

\* adaptScore(scorerName, adaptScore(scorerName, result)): the Score that
\* came back is adapted under the same scorer name
AdaptAgain ==
    /\ adaptPc = "out"
    /\ ~adaptOut.threw
    /\ adaptAgain' = adaptScore(adaptName, adaptOut.v)
    /\ adaptPc' = "again"
    /\ UNCHANGED <<adaptName, adaptIn, adaptOut>>
    /\ UNCHANGED <<evalVars, restVars>>

NextAdapt ==
    \/ Adapt
    \/ AdaptAgain

SpecAdapt == InitAdapt /\ [][NextAdapt]_vars

----------------------------------------------------------------------------
(* A run of evaluate *)

Init == InitEval /\ AdaptIdle /\ ScoreIdle /\ FormatIdle /\ TraceIdle

Next ==
    \/ ResolveData
    \/ ProducerThrows
    \/ OpenItem
    \/ TaskDone
    \/ BeginScorer
    \/ ScorerDone
    \/ ScoringDone
    \/ EmitScore
    \/ EmitDone
    \/ AppendResult
    \/ Finish
    \/ Settle

Spec == Init /\ [][Next]_vars

----------------------------------------------------------------------------
(* A Score on its way out of the process: the scorer span of evaluate and  *)
(* the span of score()                                                     *)

Block == "1234567890"

RECURSIVE Blocks(_)
Blocks(n) == IF n = 0 THEN "" ELSE Block \o Blocks(n - 1)

\* a text of n characters, the k-th being the last digit of k
Text(n) == SubSeq(Blocks(n \div 10 + 1), 1, n)

\* the lengths of the rationales: none, short, around the limit, long
RationaleLengths ==
    {0, 1, RationaleLimit - 1, RationaleLimit, RationaleLimit + 1, MaxRationale}

\* the Scores a scorer named nm contributes: with and without a value, a
\* label and a rationale
ScoresOut(nm) ==
    { Obj(<< <<"name", Str(nm)>> >> \o v \o l \o r) :
        v \in { <<>>, << <<"value", Num(1)>> >> },
        l \in { <<>>, << <<"label", Str("L")>> >> },
        r \in { <<>> } \cup
              { << <<"rationale", Str(Text(n))>> >> : n \in RationaleLengths } }

\* evaluate.ts 234-249: the ScoreOptions object of a call of submitScore
\* with the arguments args; formatTraceId and formatSpanId give texts
AsOptions(args) ==
    [NoOptions EXCEPT
        !.name = Str(args.name), !.value = args.value,
        !.traceId = Str(args.traceId), !.spanId = Str(NatToStr(args.spanId)),
        !.label = args.label, !.rationale = args.rationale,
        !.source = Str(args.source),
        !.metadata = Obj(<< <<"eval_name", Str(args.eval_name)>>,
                            <<"item_index", Num(args.item_index)>> >>)]

\* a default that is never applied
DefaultNever(v, dflt) == v

\* a destructuring default: it applies to an undefined option only
Default(v, dflt) == IF v = Undef THEN dflt ELSE v

\* score() throws before it starts a span: rationale.slice on a truthy
\* rationale without a slice method, or String(v) of a metadata entry
scoreThrows(options) ==
    \/ ScoreCallThrows(options)
    \/ /\ Truthy(options.metadata)
       /\ \E x \in 1..Len(options.metadata.f) :
             JsStringThrows(options.metadata.f[x][2])

\* lines 375-379: one attribute per metadata entry, from the x-th on
RECURSIVE MetadataAttrs(_, _)
MetadataAttrs(metadata, x) ==
    IF x > Len(metadata.f) THEN <<>>
    ELSE << <<"score.metadata." \o metadata.f[x][1],
              Str(JsString(metadata.f[x][2]))>> >> \o MetadataAttrs(metadata, x + 1)

\* score() with the rationale kept whole
scoreWholeRationale(sp, parent, options) ==
    LET a0 == << <<"opensearch.score", Bool(TRUE)>>,
                 <<"score.name", options.name>> >>
        a1 == IF Truthy(options.rationale)
              THEN Append(a0, <<"score.rationale", options.rationale>>)
              ELSE a0
        s1 == StartSpan(sp, "score." \o JsString(options.name), parent, a1)
    IN  EndSpan(s1, Len(s1))

\* decorators.ts 332-384, score(options) under the active span parent: the
\* span it starts with its attributes and ends; nothing is started when
\* score() throws.  OPENSEARCH_PROJECT is not set in the environment.
score(sp, parent, options) ==
    LET rat == options.rationale
        a0 == << <<"opensearch.score", Bool(TRUE)>>,
                 <<"score.name", options.name>>,
                 <<"score.data_type", Default(options.dataType, Str("NUMERIC"))>>,
                 <<"score.source", Default(options.source, Str("sdk"))>>,
                 <<"score.project", Str("default")>> >>
        a1 == IF options.value # Undef
              THEN Append(a0, <<"score.value", options.value>>) ELSE a0
        a2 == IF Truthy(options.traceId)
              THEN Append(a1, <<"score.trace_id", options.traceId>>) ELSE a1
        a3 == IF Truthy(options.spanId)
              THEN Append(a2, <<"score.span_id", options.spanId>>) ELSE a2
        a4 == IF Truthy(options.label)
              THEN Append(a3, <<"score.label", options.label>>) ELSE a3
        a5 == IF Truthy(options.comment)
              THEN Append(a4, <<"score.comment", options.comment>>) ELSE a4
        a6 == IF Truthy(rat)
              THEN Append(a5, <<"score.rationale",
                                IF rat.t = "string"
                                THEN Str(Slice(rat.s, RationaleLimit))
                                ELSE [rat EXCEPT !.f = Slice(@, RationaleLimit)]>>)
              ELSE a5
        a7 == IF Truthy(options.metadata)
              THEN a6 \o MetadataAttrs(options.metadata, 1) ELSE a6
        s1 == StartSpan(sp, "score." \o JsString(options.name), parent, a7)
    IN  IF scoreThrows(options) THEN sp ELSE EndSpan(s1, Len(s1))

\* the options of the calls of score() by the application: each option not
\* supplied, supplied empty (a text) or zero (the value), or supplied
OptionSets ==
    [name : {Str("relevance")},
     value : {Undef, Num(0), Num(1)},
     traceId : {Undef, Str(""), Str("abc123")},
     spanId : {Undef, Str("s1")},
     label : {Undef, Str(""), Str("L")},
     dataType : {Undef},
     source : {Undef, Str("llm-judge")},
     comment : {Undef, Str("c")},
     rationale : {Undef, Str(""), Str("Good answer")},
     metadata : {Undef, Obj(<< <<"k", Num(1)>> >>)}]

InitScore ==
    /\ \/ /\ scPc = "scorer"
          /\ \E nm \in ScorerNames : \E sc \in ScoresOut(nm) : scScore = <<nm, sc>>
          /\ scOptions = NoOptions
       \/ /\ scPc = "call"
          /\ scScore = <<"s", Undef>>
          /\ scOptions \in OptionSets
    /\ scSpans = <<>>
    /\ EvalIdle
    /\ AdaptIdle
    /\ FormatIdle
    /\ TraceIdle

\* evaluate.ts 195-229, once adaptScore has returned scoreObj: the scorer
\* span is opened, gets the Score's attributes and is ended
ScorerSpan ==
    /\ scPc = "scorer"
    /\ LET s1 == StartSpan(scSpans, "eval_score." \o scScore[1], 0,
                           << <<"eval.scorer.name", Str(scScore[1])>> >>)
       IN  scSpans' = EndSpan(ScoreAttrs(s1, Len(s1), scScore[2]), Len(s1))
    /\ scPc' = "emit"
    /\ UNCHANGED <<scScore, scOptions>>
    /\ UNCHANGED <<adaptVars, evalVars, fmtVars, traceVars>>

\* evaluate.ts 238-249 and score(): the Score is handed to score(), which
\* starts and ends the score span
SubmitScore ==
    /\ scPc = "emit"
    /\ scOptions' = AsOptions(EmitArgs(scScore, 1, 0))
    /\ scSpans' = score(scSpans, 0, scOptions')
    /\ scPc' = "done"
    /\ UNCHANGED scScore
    /\ UNCHANGED <<adaptVars, evalVars, fmtVars, traceVars>>

\* the application calls score(options) outside every span
ScoreCall ==
    /\ scPc = "call"
    /\ scSpans' = score(scSpans, 0, scOptions)
    /\ scPc' = "done"
    /\ UNCHANGED <<scScore, scOptions>>
    /\ UNCHANGED <<adaptVars, evalVars, fmtVars, traceVars>>

NextScore ==
    \/ ScorerSpan
    \/ SubmitScore
    \/ ScoreCall

SpecScore == InitScore /\ [][NextScore]_vars

----------------------------------------------------------------------------
(* formatEvalSummary applied to a summary *)

\* a number as the fraction n/d
Frac(n, d) == [t |-> "number", n |-> n, d |-> d, s |-> "", f |-> <<>>]

\* the means of a summary: whole, halves, thirds, a tie of the rounding
\* (1/16 = 0.0625), a negative one and NaN
FormatMeans ==
    { Num(0), Num(1), Frac(1, 2), Frac(2, 3), Frac(1, 3), Frac(1, 16),
      Frac(0 - 1, 16), Frac(3, 2), NaN }

\* the averages of a summary: one entry per scorer name, in any order
FormatAverages ==
    { q \in UNION { [1..m -> ScorerNames \X FormatMeans] : m \in 0..MaxScorers } :
        \A x, y \in 1..Len(q) : q[x][1] = q[y][1] => x = y }

\* toFixed that cuts the digits after the third instead of rounding
ToFixed3Truncating(v) ==
    IF v.d = 0 THEN "NaN"
    ELSE LET a == IF v.n < 0 THEN 0 - v.n ELSE v.n
             q == (1000 * a) \div v.d
             frac == q % 1000
         IN  (IF v.n < 0 THEN "-" ELSE "") \o NatToStr(q \div 1000) \o "." \o
             (IF frac < 10 THEN "00" ELSE IF frac < 100 THEN "0" ELSE "") \o
             NatToStr(frac)

\* Number.prototype.toFixed(3) of the fraction n/d: the nearest multiple of
\* 1/1000, the larger one in magnitude of two nearest, with a sign for a
\* negative number and "NaN" for NaN
ToFixed3(v) ==
    IF v.d = 0 THEN "NaN"
    ELSE LET a == IF v.n < 0 THEN 0 - v.n ELSE v.n
             q == (2000 * a + v.d) \div (2 * v.d)
             frac == q % 1000
         IN  (IF v.n < 0 THEN "-" ELSE "") \o NatToStr(q \div 1000) \o "." \o
             (IF frac < 10 THEN "00" ELSE IF frac < 100 THEN "0" ELSE "") \o
             NatToStr(frac)

\* line 298: the line of one entry of summary.averages
AverageLine(scorerName, avg) == "  " \o scorerName \o ": " \o ToFixed3(avg)

\* parts.join("\n") from the x-th part on
RECURSIVE JoinLines(_, _)
JoinLines(parts, x) ==
    IF x > Len(parts) THEN ""
    ELSE IF x = Len(parts) THEN parts[x]
    ELSE parts[x] \o "\n" \o JoinLines(parts, x + 1)

\* evaluate.ts 295-301
formatEvalSummary(s) ==
    LET header == "Eval: " \o s.name \o " (" \o NatToStr(s.total) \o
                  " samples, " \o NatToStr(s.errors) \o " errors)"
        parts == <<header>> \o
                 [x \in 1..Len(s.averages) |->
                    AverageLine(s.averages[x][1], s.averages[x][2])]
    IN  JoinLines(parts, 1)

InitFormat ==
    /\ \E total \in 0..MaxItems : \E errors \in 0..total :
       \E avgs \in FormatAverages :
          fmtSummary = [EmptySummary EXCEPT
                          !.total = total, !.errors = errors, !.averages = avgs,
                          !.results = [x \in 1..total |-> EmptyResult]]
    /\ fmtOut = <<>>
    /\ EvalIdle
    /\ AdaptIdle
    /\ ScoreIdle
    /\ TraceIdle

\* one call of formatEvalSummary(summary)
Format ==
    /\ Len(fmtOut) < MaxFormatCalls
    /\ fmtOut' = Append(fmtOut, formatEvalSummary(fmtSummary))
    /\ UNCHANGED fmtSummary
    /\ UNCHANGED <<adaptVars, evalVars, scoreVars, traceVars>>

NextFormat == Format

SpecFormat == InitFormat /\ [][NextFormat]_vars

----------------------------------------------------------------------------
(* decorators.ts: the trace wrappers *)

SPAN_KIND_WORKFLOW == "workflow"

SPAN_KIND_TASK == "task"

SPAN_KIND_AGENT == "agent"

SPAN_KIND_TOOL == "tool"

\* the characters of a serialized input or output kept on a span
MAX_ATTRIBUTE_LENGTH == 10000

\* an Error object, or any object String() converts to the text msg
ErrorOf(msg) == [t |-> "error", n |-> 0, d |-> 1, s |-> msg, f |-> <<>>]

\* String(err)
ErrString(err) == IF err.t = "error" THEN err.s ELSE JsString(err)

\* JSON.stringify(v) for a v that is not undefined: the whole numbers, the
\* texts without quotes, the arrays and the plain objects of the model; a
\* Promise and an Error have no enumerable own property
RECURSIVE JsonText(_)
RECURSIVE JsonElems(_, _)
RECURSIVE JsonProps(_, _, _)
JsonElems(v, x) ==
    IF x > Len(v.f) THEN ""
    ELSE (IF x > 1 THEN "," ELSE "")
         \o (IF v.f[x][2].t = "undefined" THEN "null" ELSE JsonText(v.f[x][2]))
         \o JsonElems(v, x + 1)
JsonProps(v, x, any) ==
    IF x > Len(v.f) THEN ""
    ELSE IF v.f[x][2].t = "undefined" THEN JsonProps(v, x + 1, any)
    ELSE (IF any THEN "," ELSE "")
         \o "\"" \o v.f[x][1] \o "\":" \o JsonText(v.f[x][2])
         \o JsonProps(v, x + 1, TRUE)
JsonText(v) ==
    CASE v.t = "null"    -> "null"
      [] v.t = "boolean" -> IF v.n = 1 THEN "true" ELSE "false"
      [] v.t = "number"  -> IF v.d = 0 THEN "null" ELSE NatToStr(v.n)
      [] v.t = "string"  -> "\"" \o v.s \o "\""
      [] v.t = "array"   -> "[" \o JsonElems(v, 1) \o "]"
      [] v.t = "object"  -> "{" \o JsonProps(v, 1, FALSE) \o "}"
      [] OTHER           -> "{}"

\* lines 240-242 and 262-264: the serialized text cut to the limit
Truncated(serialized) ==
    IF Len(serialized) > MAX_ATTRIBUTE_LENGTH
    THEN SubSeq(serialized, 1, MAX_ATTRIBUTE_LENGTH) \o "...(truncated)"
    ELSE serialized

\* lines 232-249; JSON.stringify(undefined) is undefined, whose length
\* throws inside the try block
setInput(sp, id, args) ==
    IF Len(args) = 0 THEN sp
    ELSE LET value == IF Len(args) = 1 THEN args[1] ELSE Arr(args)
         IN  IF value.t = "undefined" THEN sp
             ELSE SetAttr(sp, id, "gen_ai.entity.input",
                          Str(Truncated(JsonText(value))))

\* lines 254-271
setOutput(sp, id, result) ==
    IF Nullish(result) THEN sp
    ELSE SetAttr(sp, id, "gen_ai.entity.output", Str(Truncated(JsonText(result))))

\* lines 212-227
setSpanAttributes(sp, id, spanKind, version, args) ==
    LET s1 == SetAttr(sp, id, "gen_ai.operation.name", Str(spanKind))
        s2 == IF version # Undef
              THEN SetAttr(s1, id, "gen_ai.entity.version", version) ELSE s1
    IN  setInput(s2, id, args)

\* lines 160-207: the wrapper of a function, as the span name, the span
\* kind and options.version it was made with
makeWrapper(spanName, spanKind, version) ==
    [name |-> spanName, kind |-> spanKind, version |-> version]

\* lines 66-72
traceWorkflow(name, version) == makeWrapper(name, SPAN_KIND_WORKFLOW, version)

\* lines 91-97
traceTask(name, version) == makeWrapper(name, SPAN_KIND_TASK, version)

\* lines 121-127
traceAgent(name, version) == makeWrapper(name, SPAN_KIND_AGENT, version)

\* lines 146-152
traceTool(name, version) == makeWrapper(name, SPAN_KIND_TOOL, version)

\* the names given to the wrappers
SpanNames == {"outer_workflow", "inner_tool"}

\* options.version: absent or 3
Versions == {Undef, Num(3)}

\* the wrappers of a run
Wrappers ==
    UNION { { traceWorkflow(nm, v), traceTask(nm, v), traceAgent(nm, v),
              traceTool(nm, v) } : nm \in SpanNames, v \in Versions }

\* the argument lists of the calls
ArgLists == { <<Num(5)>>, <<Str("hello"), Num(42)>> }

\* what wrapped functions return and what their promises resolve to
TraceValues == { Undef, Num(6), Str("done") }

\* what wrapped functions throw and what their promises reject with: an
\* Error, and a value String() cannot convert
TraceErrors == { ErrorOf(ErrorText), Unprintable }

\* the TypeError of a failed String(err)
TypeErr == ErrorOf(TypeErrorText)

\* nothing yet
None == [how |-> "none", val |-> Undef]

Did(how, val) == [how |-> how, val |-> val]

\* the wrapper's own Promise: result.then(...).catch(...) of call c
Chained(c) == Promise(MaxCalls + c)

\* the call on top of the call stack, 0 for the top level
Running == IF Len(trStack) = 0 THEN 0 ELSE trStack[Len(trStack)]

\* the calls whose wrapped function returned a Promise that is pending
Pending == { c \in 1..Len(trCalls) : trCalls[c].fn.how = "promise"
                                      /\ trCalls[c].settled.how = "none" }

InitTrace ==
    /\ TraceIdle
    /\ EvalIdle
    /\ AdaptIdle
    /\ ScoreIdle
    /\ FormatIdle

\* lines 166-173: a wrapper is called, by the top level, by the wrapped
\* function that is running or by the continuation of an async wrapped
\* function whose Promise is pending; startActiveSpan starts the span
\* under the caller's span, the attributes are set and fn is called
WrapperCall ==
    /\ Len(trCalls) < MaxCalls
    /\ \E w \in Wrappers, args \in ArgLists :
       \E caller \in (IF Running # 0 THEN {Running} ELSE {0} \cup Pending) :
          LET id == Len(trSpans) + 1
              parent == IF caller = 0 THEN 0 ELSE trCalls[caller].span
              roots == { x \in 1..Len(trSpans) : trSpans[x].parent = 0 }
              s1 == StartSpan(trSpans, w.name, parent, <<>>)
          IN  /\ trSpans' = setSpanAttributes(s1, id, w.kind, w.version, args)
              /\ trTrace' = Append(trTrace,
                                   IF parent = 0 THEN Cardinality(roots) + 1
                                   ELSE trTrace[parent])
              /\ trCalls' = Append(trCalls,
                                   [wrapper |-> w, args |-> args, caller |-> caller,
                                    span |-> id, fn |-> None, got |-> None,
                                    settled |-> None, gotSettled |-> None])
              /\ trStack' = Append(trStack, Len(trCalls) + 1)
    /\ UNCHANGED trFinished
    /\ UNCHANGED <<adaptVars, evalVars, scoreVars, fmtVars>>

\* lines 191-194: fn returns a value that is no Promise
FnReturns ==
    /\ Running # 0
    /\ \E v \in TraceValues :
          LET c == Running
              id == trCalls[c].span
          IN  /\ trSpans' = EndSpan(setOutput(trSpans, id, v), id)
              /\ trFinished' = Append(trFinished, id)
              /\ trCalls' = [trCalls EXCEPT ![c].fn = Did("returned", v),
                                            ![c].got = Did("returned", v)]
    /\ trStack' = SubSeq(trStack, 1, Len(trStack) - 1)
    /\ UNCHANGED trTrace
    /\ UNCHANGED <<adaptVars, evalVars, scoreVars, fmtVars>>

\* lines 173 and 195-200: fn throws; the catch block converts the error
\* with String(err) for the status message, and when that conversion throws
\* its TypeError leaves the wrapper before the span is marked and ended
FnThrows ==
    /\ Running # 0
    /\ \E err \in TraceErrors :
          LET c == Running
              id == trCalls[c].span
          IN  IF JsStringThrows(err)
              THEN /\ trCalls' = [trCalls EXCEPT ![c].fn = Did("threw", err),
                                                 ![c].got = Did("threw", TypeErr)]
                   /\ UNCHANGED <<trSpans, trFinished>>
              ELSE /\ trSpans' = EndSpan(SetError(trSpans, id, ErrString(err)), id)
                   /\ trFinished' = Append(trFinished, id)
                   /\ trCalls' = [trCalls EXCEPT ![c].fn = Did("threw", err),
                                                 ![c].got = Did("threw", err)]
    /\ trStack' = SubSeq(trStack, 1, Len(trStack) - 1)
    /\ UNCHANGED trTrace
    /\ UNCHANGED <<adaptVars, evalVars, scoreVars, fmtVars>>

\* lines 175-189: fn returns a Promise; the wrapper returns the Promise of
\* result.then(...).catch(...) and leaves the span open
FnReturnsPromise ==
    /\ Running # 0
    /\ LET c == Running
       IN  trCalls' = [trCalls EXCEPT ![c].fn = Did("promise", Promise(c)),
                                     ![c].got = Did("promise", Chained(c))]
    /\ trStack' = SubSeq(trStack, 1, Len(trStack) - 1)
    /\ UNCHANGED <<trSpans, trTrace, trFinished>>
    /\ UNCHANGED <<adaptVars, evalVars, scoreVars, fmtVars>>

\* lines 178-182: the Promise of fn resolves, and the reaction runs once
\* the call stack is empty
PromiseResolves ==
    /\ Running = 0
    /\ \E c \in Pending : \E v \in TraceValues :
          LET id == trCalls[c].span
          IN  /\ trSpans' = EndSpan(setOutput(trSpans, id, v), id)
              /\ trFinished' = Append(trFinished, id)
              /\ trCalls' = [trCalls EXCEPT ![c].settled = Did("resolved", v),
                                            ![c].gotSettled = Did("resolved", v)]
    /\ UNCHANGED <<trStack, trTrace>>
    /\ UNCHANGED <<adaptVars, evalVars, scoreVars, fmtVars>>

\* lines 183-188: the Promise of fn rejects; String(err) of the status
\* message may throw inside the reaction, and then the wrapper's Promise
\* rejects with that TypeError and the span is neither marked nor ended
PromiseRejects ==
    /\ Running = 0
    /\ \E c \in Pending : \E err \in TraceErrors :
          LET id == trCalls[c].span
          IN  IF JsStringThrows(err)
              THEN /\ trCalls' = [trCalls EXCEPT
                                    ![c].settled = Did("rejected", err),
                                    ![c].gotSettled = Did("rejected", TypeErr)]
                   /\ UNCHANGED <<trSpans, trFinished>>
              ELSE /\ trSpans' = EndSpan(SetError(trSpans, id, ErrString(err)), id)
                   /\ trFinished' = Append(trFinished, id)
                   /\ trCalls' = [trCalls EXCEPT
                                    ![c].settled = Did("rejected", err),
                                    ![c].gotSettled = Did("rejected", err)]
    /\ UNCHANGED <<trStack, trTrace>>
    /\ UNCHANGED <<adaptVars, evalVars, scoreVars, fmtVars>>

NextTrace ==
    \/ WrapperCall
    \/ FnReturns
    \/ FnThrows
    \/ FnReturnsPromise
    \/ PromiseResolves
    \/ PromiseRejects

SpecTrace == InitTrace /\ [][NextTrace]_vars

----------------------------------------------------------------------------
(* What the runs are checked against: the history of a run *)

\* the log's events of kind ev about item x (0-based)
EventsOf(ev, x) == SelectSeq(log, LAMBDA e : e.ev = ev /\ e.item = x)

\* the task was called for item x and threw
TaskThrew(x) == \E y \in 1..Len(log) :
    log[y].ev = "task" /\ log[y].item = x /\ log[y].how = "threw"

\* the task was called for item x and returned
TaskReturned(x) == \E y \in 1..Len(log) :
    log[y].ev = "task" /\ log[y].item = x /\ log[y].how = "returned"

\* the scorer at position p (0-based) threw on item x
ScorerThrew(x, p) == \E y \in 1..Len(log) :
    /\ log[y].ev = "scorer" /\ log[y].item = x /\ log[y].idx = p
    /\ log[y].how = "threw"

\* the scorer at position p (0-based) returned on item x
ScorerReturned(x, p) == \E y \in 1..Len(log) :
    /\ log[y].ev = "scorer" /\ log[y].item = x /\ log[y].idx = p
    /\ log[y].how = "returned"

\* the items whose result is in the summary
Items == 0..(Len(summary.results) - 1)

\* the scores mapping an item gets from what its scorers returned, from
\* the y-th scorer event of the item on
RECURSIVE ScoresFrom(_, _, _)
ScoresFrom(m, evs, y) ==
    IF y > Len(evs) THEN m
    ELSE LET a == adaptScore(evs[y].name, evs[y].val)
         IN  ScoresFrom(IF evs[y].how = "returned" /\ ~a.threw
                        THEN SetEntry(m, evs[y].name, a.v) ELSE m,
                        evs, y + 1)

\* the result of item x as a function of the datum and of what the task
\* and the scorers did, whatever was emitted
ResultOf(x) ==
    LET te == EventsOf("task", x)[1]
        failed == te.how = "threw" \/ JsStringThrows(te.val)
    IN  [input |-> Get(data[x + 1], "input"),
         expected |-> Get(data[x + 1], "expected"),
         hasOutput |-> te.how = "returned",
         output |-> te.val,
         scores |-> IF failed THEN <<>>
                    ELSE ScoresFrom(<<>>, EventsOf("scorer", x), 1),
         hasError |-> failed,
         error |-> IF te.how = "threw" THEN ErrorText
                   ELSE IF failed THEN TypeErrorText ELSE ""]

\* the summary as a function of the dataset and of what the task and the
\* scorers did, whatever was emitted
SummaryOf ==
    LET rs == [x \in 1..Len(data) |-> ResultOf(x - 1)]
    IN  [name |-> EvalName, results |-> rs, averages |-> Averages(rs),
         total |-> Len(data),
         errors |-> Cardinality({x \in 1..Len(data) : rs[x].hasError})]

\* the numeric values recorded under a name, over the results from the
\* x-th on: their sum and their number
RECURSIVE NumericSum(_, _)
NumericSum(name, x) ==
    IF x > Len(summary.results) THEN 0
    ELSE LET sc == summary.results[x].scores
             v == IF HasEntry(sc, name) THEN Get(GetEntry(sc, name), "value")
                  ELSE Undef
         IN  (IF v.t = "number" THEN v.n ELSE 0) + NumericSum(name, x + 1)

NumericCount(name) ==
    Cardinality({x \in 1..Len(summary.results) :
        /\ HasEntry(summary.results[x].scores, name)
        /\ Get(GetEntry(summary.results[x].scores, name), "value").t = "number"})

\* r has the canonical Score shape: a textual name and a value or a label
Canonical(r) ==
    /\ r.t = "object"
    /\ HasKey(r, "name") /\ Get(r, "name").t = "string"
    /\ (HasKey(r, "value") \/ HasKey(r, "label"))

\* the shapes of the recognition order, as the rules state them
HasNumericScore(r) ==
    r.t \in {"object", "array"} /\ HasKey(r, "score") /\ Get(r, "score").t = "number"

HasLabelAndExplanation(r) ==
    /\ r.t \in {"object", "array"}
    /\ Get(r, "label").t = "string" /\ Get(r, "explanation").t = "string"

----------------------------------------------------------------------------
(* The claims *)

\* C1: the returned summary has total equal to the dataset's length,
\* results of that length, and results[i].input equal to dataset[i].input
\* for every i, whatever the task, the scorers and the emission did.
C1_SummaryCoversDataset ==
    pc = "done" =>
        /\ summary.total = Len(data)
        /\ Len(summary.results) = summary.total
        /\ \A x \in 1..Len(data) :
               summary.results[x].input = Get(data[x], "input")

\* a run over two items with different inputs, one of which failed
C1_Witness ==
    /\ pc = "done"
    /\ Len(data) = 2
    /\ Get(data[1], "input") # Get(data[2], "input")
    /\ summary.results[1].hasError /\ ~summary.results[2].hasError

\* C2: for every item whose task throws the result carries an error, has
\* no scores and nothing is emitted for it; and summary.errors is exactly
\* the number of items whose task threw, an item whose task returned never
\* being counted.
C2_ErrorsCountThrowingTasks ==
    pc = "done" =>
        /\ \A x \in Items :
               TaskThrew(x) =>
                   /\ summary.results[x + 1].hasError
                   /\ summary.results[x + 1].scores = <<>>
                   /\ \A y \in 1..Len(emitted) : emitted[y].item_index # x
        /\ summary.errors = Cardinality({x \in Items : TaskThrew(x)})

\* C3: on an item whose task succeeded, a scorer that does not throw
\* leaves exactly one entry under its name, a name all of whose scorers
\* threw has no entry, and the entry is the adapted result of the last
\* scorer of that name that did not throw.
C3_ScorersContributeUnlessTheyThrow ==
    pc = "done" =>
        \A x \in Items :
            ~summary.results[x + 1].hasError =>
                \A p \in 0..(Len(scorers) - 1) :
                    LET sc == summary.results[x + 1].scores
                        name == scorers[p + 1]
                        same == {q \in 0..(Len(scorers) - 1) : scorers[q + 1] = name}
                    IN  /\ ~ScorerThrew(x, p) =>
                               Cardinality({y \in 1..Len(sc) : sc[y][1] = name}) = 1
                        /\ (\A q \in same : ScorerThrew(x, q)) => ~HasEntry(sc, name)

\* C4: averages[s] is the arithmetic mean of the numeric values recorded
\* under s, and a name with no numeric value is absent from averages; an
\* entry whose value is missing or not a number does not count.
C4_AveragesAreMeansOfNumericValues ==
    pc = "done" =>
        \A name \in ScorerNames :
            IF NumericCount(name) = 0
            THEN ~HasEntry(summary.averages, name)
            ELSE /\ HasEntry(summary.averages, name)
                 /\ GetEntry(summary.averages, name) =
                        JsDiv(Num(NumericSum(name, 1)), NumericCount(name))

\* C5: when the dataset is given directly, evaluate never throws: no
\* exception and no input, output or scorer result stops it before it
\* returns the summary.
C5_EvaluateNeverThrows ==
    dataKind = "array" => pc # "threw"

\* C6: with emitScores false the emission collaborator is never called,
\* and the summary returned is the one determined by the dataset and by
\* what the task and the scorers did alone: neither emitScores nor what the
\* emission collaborator does changes it.
C6_EmissionDoesNotChangeSummary ==
    /\ ~emitScores => emitted = <<>>
    /\ pc = "done" => summary = SummaryOf

\* a run with emitScores false that recorded scores for two items
C6_Witness ==
    /\ pc = "done"
    /\ ~emitScores
    /\ Len(summary.results) = 2
    /\ summary.results[1].scores # <<>>
    /\ summary.results[2].scores # <<>>

\* C7, as claimed: the Score adaptScore returns always has the name of the
\* scorer, also when the raw result carries another name.
C7_NameIsScorerName ==
    (adaptPc = "out" /\ ~adaptOut.threw) =>
        Get(adaptOut.v, "name") = Str(adaptName)

\* C7, amended: the Score adaptScore returns has the name of the scorer
\* unless the raw result is already a canonical Score, which keeps the
\* name it carries.
C7_NameIsScorerNameUnlessCanonical ==
    (adaptPc = "out" /\ ~adaptOut.threw) =>
        Get(adaptOut.v, "name") =
            IF Canonical(adaptIn) THEN Get(adaptIn, "name") ELSE Str(adaptName)

\* a raw result that is not canonical and carries another name than the
\* scorer's has been adapted
C7_Witness ==
    /\ adaptPc = "out" /\ ~adaptOut.threw
    /\ ~Canonical(adaptIn)
    /\ adaptIn.t = "object"
    /\ Get(adaptIn, "name").t = "string"
    /\ Get(adaptIn, "name") # Str(adaptName)

\* C8: adaptScore never throws: for every raw result it returns a Score.
C8_AdaptScoreNeverThrows ==
    adaptPc = "out" =>
        /\ ~adaptOut.threw
        /\ adaptOut.v.t = "object"
        /\ HasKey(adaptOut.v, "name")

\* C9: a raw result that already has the canonical Score shape is returned
\* with every field unchanged.
C9_CanonicalReturnedUnchanged ==
    (adaptPc = "out" /\ Canonical(adaptIn)) => adaptOut = Ret(adaptIn)

\* a canonical Score with a label and no value, under another name than
\* the scorer's, has been adapted
C9_Witness ==
    /\ adaptPc = "out"
    /\ Canonical(adaptIn)
    /\ HasKey(adaptIn, "label") /\ ~HasKey(adaptIn, "value")
    /\ Get(adaptIn, "name") # Str(adaptName)

\* C10: the output is the one of the earliest rule that matches, in the
\* order canonical, numeric score, label and explanation, number,
\* non-array object, fallback; an object without a name that has a value
\* field and a numeric score field gets value = score.
C10_FirstMatchingRuleWins ==
    adaptPc = "out" =>
        /\ adaptOut =
             CASE Canonical(adaptIn) -> Ret(adaptIn)
               [] ~Canonical(adaptIn) /\ HasNumericScore(adaptIn) ->
                      Ret(fromAutoEvals(adaptName, adaptIn))
               [] ~Canonical(adaptIn) /\ ~HasNumericScore(adaptIn)
                  /\ HasLabelAndExplanation(adaptIn) ->
                      Ret(fromPhoenixEvals(adaptName, adaptIn))
               [] OTHER ->
                      IF adaptIn.t = "number" THEN Ret(fromNumber(adaptName, adaptIn))
                      ELSE IF adaptIn.t = "object" THEN Ret(fromDict(adaptName, adaptIn))
                      ELSE fromFallback(adaptName, adaptIn)
        /\ (/\ adaptIn.t = "object" /\ ~HasKey(adaptIn, "name")
            /\ HasKey(adaptIn, "value") /\ HasNumericScore(adaptIn))
           => Get(adaptOut.v, "value") = Get(adaptIn, "score")

\* a raw result matching the numeric-score rule, the label-and-explanation
\* rule and the non-array-object rule at once has been adapted
C10_Witness ==
    /\ adaptPc = "out"
    /\ ~Canonical(adaptIn)
    /\ HasNumericScore(adaptIn)
    /\ HasLabelAndExplanation(adaptIn)

\* the raw result has a property k whose value is neither undefined nor null
HasValue(r, k) == HasKey(r, k) /\ Get(r, k).t \notin {"undefined", "null"}

\* the rule of the recognition order that applies to r
RuleOf(r) ==
    CASE Canonical(r) -> "canonical"
      [] ~Canonical(r) /\ HasNumericScore(r) -> "autoevals"
      [] ~Canonical(r) /\ ~HasNumericScore(r) /\ HasLabelAndExplanation(r) ->
             "phoenix"
      [] OTHER ->
             IF r.t = "number" THEN "number"
             ELSE IF r.t = "object" THEN "dict"
             ELSE "fallback"

\* C11: a non-canonical raw result with a numeric score gives value =
\* score, label = its choice field if it has one with a value (neither
\* undefined nor null) and its label field otherwise, rationale = its
\* rationale field, and metadata = its metadata field if it has one with a
\* value, an empty mapping otherwise.
C11_NumericScoreMapping ==
    (adaptPc = "out" /\ RuleOf(adaptIn) = "autoevals") =>
        /\ ~adaptOut.threw
        /\ Get(adaptOut.v, "value") = Get(adaptIn, "score")
        /\ Get(adaptOut.v, "label") =
               IF HasValue(adaptIn, "choice") THEN Get(adaptIn, "choice")
               ELSE Get(adaptIn, "label")
        /\ Get(adaptOut.v, "rationale") = Get(adaptIn, "rationale")
        /\ Get(adaptOut.v, "metadata") =
               IF HasValue(adaptIn, "metadata") THEN Get(adaptIn, "metadata")
               ELSE Obj(<<>>)

\* Scenario D: {score, choice, rationale} has been adapted to
\* {name, value, label: the choice, rationale, metadata: {}}
C11_Witness ==
    /\ adaptPc = "out"
    /\ adaptIn = Obj(<< <<"score", Num(1)>>, <<"choice", Str("C")>>,
                        <<"rationale", Str("R")>> >>)
    /\ adaptOut = Ret(Obj(<< <<"name", Str(adaptName)>>, <<"value", Num(1)>>,
                             <<"label", Str("C")>>, <<"rationale", Str("R")>>,
                             <<"metadata", Obj(<<>>)>> >>))

\* C12: a raw result no earlier rule matches that has a textual label and
\* a textual explanation gives value = its score field (absent if it has
\* none), label = its label and rationale = its explanation.
C12_LabelExplanationMapping ==
    (adaptPc = "out" /\ RuleOf(adaptIn) = "phoenix") =>
        /\ ~adaptOut.threw
        /\ Get(adaptOut.v, "value") = Get(adaptIn, "score")
        /\ Get(adaptOut.v, "label") = Get(adaptIn, "label")
        /\ Get(adaptOut.v, "rationale") = Get(adaptIn, "explanation")

\* a raw result with a label, an explanation and a rationale of its own
\* has been adapted by the label-and-explanation rule
C12_Witness ==
    /\ adaptPc = "out"
    /\ RuleOf(adaptIn) = "phoenix"
    /\ HasValue(adaptIn, "rationale")
    /\ Get(adaptIn, "rationale") # Get(adaptIn, "explanation")

\* C13: a non-array object no earlier rule matches gives value = its
\* value field, or its score field when the value field is missing or
\* null; label = its label field; rationale = its rationale field, or its
\* explanation field when the rationale field is missing or null; and
\* metadata = its fields other than value, score, label, rationale and
\* explanation, in their order.
C13_ObjectMapping ==
    (adaptPc = "out" /\ RuleOf(adaptIn) = "dict") =>
        /\ ~adaptOut.threw
        /\ Get(adaptOut.v, "value") =
               IF HasValue(adaptIn, "value") THEN Get(adaptIn, "value")
               ELSE Get(adaptIn, "score")
        /\ Get(adaptOut.v, "label") = Get(adaptIn, "label")
        /\ Get(adaptOut.v, "rationale") =
               IF HasValue(adaptIn, "rationale") THEN Get(adaptIn, "rationale")
               ELSE Get(adaptIn, "explanation")
        /\ LET md == Get(adaptOut.v, "metadata").f
               rest == {x \in 1..Len(adaptIn.f) :
                           adaptIn.f[x][1] \notin
                               {"value", "score", "label", "rationale", "explanation"}}
           IN  /\ Get(adaptOut.v, "metadata").t = "object"
               /\ Len(md) = Cardinality(rest)
               /\ \A x \in rest :
                      md[Cardinality({y \in rest : y <= x})] = adaptIn.f[x]

\* an object with two fields that are kept, written in the opposite order
\* of the usual one, and an explanation has been adapted by the rule of
\* the non-array objects
C13_Witness ==
    /\ adaptPc = "out"
    /\ RuleOf(adaptIn) = "dict"
    /\ HasKey(adaptIn, "explanation")
    /\ Len(Get(adaptOut.v, "metadata").f) = 2
    /\ Get(adaptOut.v, "metadata").f[1][1] = "extra"

\* C14: a raw result no other rule matches (a string, a boolean, null,
\* undefined, an array) gives a Score whose metadata.raw is the text of
\* the value and that has no value, no label and no rationale.
C14_FallbackMapping ==
    (adaptPc = "out" /\ RuleOf(adaptIn) = "fallback") =>
        /\ ~adaptOut.threw
        /\ Get(adaptOut.v, "metadata").t = "object"
        /\ Get(Get(adaptOut.v, "metadata"), "raw").t = "string"
        /\ adaptIn = Null => Get(Get(adaptOut.v, "metadata"), "raw") = Str("null")
        /\ adaptIn = Bool(TRUE) =>
               Get(Get(adaptOut.v, "metadata"), "raw") = Str("true")
        /\ adaptIn.t = "string" => Get(Get(adaptOut.v, "metadata"), "raw") = adaptIn
        /\ adaptIn = Arr(<<Num(1), Str("x")>>) =>
               Get(Get(adaptOut.v, "metadata"), "raw") = Str("1,x")
        /\ ~HasKey(adaptOut.v, "value")
        /\ ~HasKey(adaptOut.v, "label")
        /\ ~HasKey(adaptOut.v, "rationale")

\* the events of the run about items, in the order they happened
ItemLog == SelectSeq(log, LAMBDA e : e.ev # "data")

\* the place of an event in the processing of one item
Rank(e) ==
    CASE e.ev = "task" -> 1
      [] e.ev \in {"call", "scorer"} -> 2
      [] e.ev = "emit" -> 3
      [] OTHER -> 4

C16_StrictlySequential ==
    LET L == ItemLog
    IN  /\ Len(L) > 0 => (L[1].ev = "task" /\ L[1].item = 0)
        /\ \A p \in 1..(Len(L) - 1) :
              LET a == L[p]
                  b == L[p + 1]
              IN  /\ a.item <= b.item
                  /\ a.item = b.item =>
                        /\ Rank(a) <= Rank(b)
                        /\ b.ev # "task"
                        /\ a.ev # "append"
                  /\ a.item < b.item =>
                        /\ a.ev = "append"
                        /\ b.ev = "task"
                        /\ b.item = a.item + 1
                  /\ a.ev = "call" =>
                        /\ b.ev = "scorer"
                        /\ b.item = a.item
                        /\ b.idx = a.idx
                  /\ (a.ev = "scorer" /\ b.ev \in {"call", "scorer"}) =>
                        a.idx < b.idx
        /\ \A p \in 1..Len(L) :
              L[p].ev = "call" =>
                /\ TaskReturned(L[p].item)
                /\ L[p].idx < Len(scorers)
                /\ L[p].name = scorers[L[p].idx + 1]
                /\ p = Len(L) => pc = "scorer"
        /\ pc = "done" =>
              Len(SelectSeq(L, LAMBDA e : e.ev = "task")) = Len(data)

\* a run of two items with two different scorers, both called on both
\* items, and with emissions
C16_Witness ==
    /\ pc = "done"
    /\ scorers = <<"s", "t">>
    /\ Len(EventsOf("call", 0)) = 2
    /\ Len(EventsOf("call", 1)) = 2
    /\ Len(EventsOf("emit", 0)) > 0

\* the datum of item x (0-based)
DatumOf(x) == data[x + 1]

\* C17: every scorer call gets input, output and expected as text: the
\* text of the datum's input, the text of what the task returned, and the
\* text of the datum's expected value; when the datum has no expected
\* value the argument has no expected entry at all.
C17_ScorerArgsAreText ==
    \A p \in 1..Len(log) :
        log[p].ev = "call" =>
            LET args == log[p].val
                datum == DatumOf(log[p].item)
                te == EventsOf("task", log[p].item)[1]
            IN  /\ Get(args, "input").t = "string"
                /\ Get(datum, "input").t = "string" =>
                       Get(args, "input") = Get(datum, "input")
                /\ Get(args, "output").t = "string"
                /\ te.val.t = "string" => Get(args, "output") = te.val
                /\ Get(datum, "expected") = Undef => ~HasKey(args, "expected")
                /\ Get(datum, "expected") # Undef =>
                       /\ Get(args, "expected").t = "string"
                       /\ Get(datum, "expected").t = "string" =>
                              Get(args, "expected") = Get(datum, "expected")

\* the span opened for item x (0-based)
ItemSpanOf(x) ==
    CHOOSE id \in 1..Len(spans) :
        /\ spans[id].name = "eval_item"
        /\ spans[id].attrs[1] = <<"eval.item.index", Num(x)>>

\* what was handed to submitScore for item x, in the order of the calls
EmittedFor(x) == SelectSeq(emitted, LAMBDA e : e.item_index = x)

\* the place in the log of the appending of item x's result
AppendedAt(x) == CHOOSE p \in 1..Len(log) : log[p].ev = "append" /\ log[p].item = x

\* C18: with emitScores set, the emissions of an item happen after all
\* its scorers have run and before its result is appended; for an item
\* whose result is appended there is exactly one emission per entry of
\* its scores, carrying the entry's name, value, label and rationale, the
\* trace and the span of the item, source "eval", the name of the run and
\* the index of the item.
C18_OneEmissionPerRecordedScore ==
    emitScores =>
        /\ \A x \in Items :
              LET sc == summary.results[x + 1].scores
                  em == EmittedFor(x)
              IN  /\ Len(em) = Len(sc)
                  /\ \A y \in 1..Len(sc) :
                        /\ em[y].name = sc[y][1]
                        /\ em[y].value = Get(sc[y][2], "value")
                        /\ em[y].label = Get(sc[y][2], "label")
                        /\ em[y].rationale = Get(sc[y][2], "rationale")
                        /\ em[y].traceId = TraceId
                        /\ em[y].spanId = ItemSpanOf(x)
                        /\ em[y].source = "eval"
                        /\ em[y].eval_name = EvalName
                        /\ em[y].item_index = x
        /\ \A p \in 1..Len(log) :
              log[p].ev = "emit" =>
                /\ \A q \in 1..Len(log) :
                      (log[q].item = log[p].item /\ log[q].ev \in {"call", "scorer"})
                          => q < p
                /\ Len(EventsOf("scorer", log[p].item)) = Len(scorers)
                /\ log[p].item \in Items => p < AppendedAt(log[p].item)
                /\ log[p].item \notin Items =>
                      (pc \in {"emit", "append"} /\ i = log[p].item)

\* a finished run with emitScores set in which an item with two recorded
\* scores, one of them with a label, was emitted
C18_Witness ==
    /\ pc = "done"
    /\ emitScores
    /\ \E x \in Items :
          /\ Len(summary.results[x + 1].scores) = 2
          /\ Len(EmittedFor(x)) = 2
          /\ x = 1
          /\ \E y \in 1..2 : EmittedFor(x)[y].label = Str("L")

\* C19: an emission that throws is swallowed.  In a finished run in which
\* emissions failed, every recorded score of every item has still been
\* handed to submitScore, and the summary is the one determined by the
\* dataset, the task and the scorers alone.
C19_EmitFailureIsSwallowed ==
    (pc = "done" /\ \E n \in ScorerNames : EmitWarning(n) \in warnings) =>
        /\ \A x \in Items :
              [y \in 1..Len(EmittedFor(x)) |-> EmittedFor(x)[y].name]
                = [y \in 1..Len(summary.results[x + 1].scores) |->
                       summary.results[x + 1].scores[y][1]]
        /\ summary = SummaryOf
        /\ Len(summary.results) = Len(data)

\* the emission of the first score of an item failed, the emission of the
\* item's second score did not, and a later item was emitted too
C19_Witness ==
    /\ pc = "done"
    /\ scorers = <<"s", "t">>
    /\ EmitWarning("s") \in warnings
    /\ EmitWarning("t") \notin warnings
    /\ Len(EmittedFor(0)) = 2
    /\ Len(EmittedFor(1)) = 2

\* C20: a producer function is called once, before any span is opened and
\* before any task or scorer is called; if it throws, the exception leaves
\* evaluate, no span is opened and no task, scorer or emission is called.
C20_ProducerCalledOnceFirst ==
    LET calls == SelectSeq(log, LAMBDA e : e.ev = "data")
    IN  /\ dataKind = "array" => Len(calls) = 0
        /\ dataKind = "producer" =>
              /\ Len(calls) = IF pc = "start" THEN 0 ELSE 1
              /\ pc = "start" => (spans = <<>> /\ log = <<>>)
              /\ Len(calls) = 1 =>
                    /\ log[1].ev = "data"
                    /\ log[1].how = "threw" =>
                          /\ pc = "threw"
                          /\ spans = <<>>
                          /\ Len(log) = 1
                          /\ emitted = <<>>
                          /\ summary.results = <<>>

\* a producer function threw
C20_Witness ==
    /\ dataKind = "producer"
    /\ Len(log) = 1
    /\ log[1].ev = "data" /\ log[1].how = "threw"
    /\ pc = "threw"

\* C21: in every result of a returned summary, output is there only if
\* the task returned and error only if the task threw; no result has both
\* an error and an output, and a result with an error has no scores.
C21_ErrorExcludesOutputAndScores ==
    pc = "done" =>
        \A x \in Items :
            LET er == summary.results[x + 1]
            IN  /\ er.hasOutput => TaskReturned(x)
                /\ er.hasError => TaskThrew(x)
                /\ ~(er.hasError /\ er.hasOutput)
                /\ er.hasError => er.scores = <<>>

\* the events of item x in which a scorer named n returned
ReturnsOf(x, n) ==
    SelectSeq(log, LAMBDA e : /\ e.ev = "scorer" /\ e.item = x
                              /\ e.name = n /\ e.how = "returned")

\* C22: the keys of an item's scores are unique, and when two scorers of
\* the same name both returned on the item the one entry under that name
\* is the Score of the later of them; that entry is the one emitted, and
\* the one averaged.
C22_LastWriteWins ==
    pc = "done" =>
        \A x \in Items :
            LET sc == summary.results[x + 1].scores
            IN  /\ \A y \in 1..Len(sc) : \A z \in 1..Len(sc) :
                      sc[y][1] = sc[z][1] => y = z
                /\ \A n \in ScorerNames :
                      LET rs == ReturnsOf(x, n)
                      IN  Len(rs) >= 2 =>
                            /\ HasEntry(sc, n)
                            /\ LET last == rs[Len(rs)].val
                                   want == IF Canonical(last) THEN last
                                           ELSE IF last.t = "number"
                                           THEN Obj(<< <<"name", Str(n)>>,
                                                       <<"value", last>> >>)
                                           ELSE GetEntry(sc, n)
                               IN  /\ GetEntry(sc, n) = want
                                   /\ last.t = "array" =>
                                         Get(Get(GetEntry(sc, n), "metadata"), "raw").t
                                             = "string"
                                   /\ emitScores =>
                                         \E y \in 1..Len(EmittedFor(x)) :
                                             /\ EmittedFor(x)[y].name = n
                                             /\ EmittedFor(x)[y].value =
                                                    Get(want, "value")
                                             /\ EmittedFor(x)[y].label =
                                                    Get(want, "label")
                                   /\ (Len(data) = 1 /\ last.t = "number") =>
                                         /\ HasEntry(summary.averages, n)
                                         /\ GetEntry(summary.averages, n) = last

\* C23: when the task returns a Promise, evaluate does not wait for it:
\* the item is no error, its output is the Promise itself, a warning is
\* logged, every scorer is still called for the item, and the summary
\* returned stays what it is when the Promise resolves or rejects.
C23_AsyncTaskNotAwaited ==
    /\ [](\A x \in Items :
            LET te == EventsOf("task", x)[1]
                er == summary.results[x + 1]
            IN  (te.how = "returned" /\ IsPromise(te.val)) =>
                    /\ ~er.hasError
                    /\ er.hasOutput /\ er.output = te.val
                    /\ AsyncWarning \in warnings
                    /\ Len(EventsOf("call", x)) = Len(scorers)
                    /\ pc = "done" => summary.errors = 0)
    /\ [][(pc = "done" /\ settled' # settled) =>
             (pc' = "done" /\ summary' = summary)]_vars

\* the spans with a given name prefix and parent
SpansOf(kind, parent) ==
    {id \in 1..Len(spans) :
        /\ spans[id].parent = parent
        /\ Len(spans[id].name) >= Len(kind)
        /\ SubSeq(spans[id].name, 1, Len(kind)) = kind}

\* the spans that are open
OpenSpans == {id \in 1..Len(spans) : spans[id].ended = 0}

\* evaluate has returned or thrown after it got its dataset
RunOver ==
    /\ pc \in {"done", "threw"}
    /\ ~(Len(log) > 0 /\ log[1].ev = "data" /\ log[1].how = "threw")

\* C24: a run opens one run span, one item span per datum under the run
\* span, one task span per item under the item's span and one scorer span
\* per scorer call under the item's span (none for an item whose task
\* failed); a span is open while its computation runs, and it is ended,
\* once, before the next sibling span is opened.
C24_SpanTree ==
    /\ RunOver =>
          /\ Cardinality(SpansOf("evaluate", 0)) = 1
          /\ Cardinality(SpansOf("eval_item", 1)) = Len(data)
          /\ \A id \in 1..Len(spans) :
                /\ spans[id].ended = 1
                /\ spans[id].name = "evaluate" \/ spans[id].parent > 0
          /\ \A x \in 0..(Len(data) - 1) :
                \E id \in SpansOf("eval_item", 1) :
                    /\ spans[id].attrs[1] = <<"eval.item.index", Num(x)>>
                    /\ Cardinality(SpansOf("eval_task", id)) = 1
                    /\ Cardinality(SpansOf("eval_score.", id)) =
                           Len(EventsOf("call", x))
                    /\ TaskThrew(x) => SpansOf("eval_score.", id) = {}
    /\ \A id \in OpenSpans :
          /\ spans[id].parent > 0 => spans[id].parent \in OpenSpans
          /\ \A other \in OpenSpans :
                spans[other].parent = spans[id].parent => other = id
    /\ \A id \in 1..Len(spans) : spans[id].ended <= 1
    /\ pc = "task" =>
          (callSpan \in OpenSpans /\ spans[callSpan].name = "eval_task")
    /\ pc = "scorer" =>
          /\ callSpan \in OpenSpans
          /\ spans[callSpan].name = "eval_score." \o ScorerAt(scorers, scorerIdx)
    /\ pc \in {"scoring", "emit", "append"} =>
          \A id \in OpenSpans : spans[id].name \in {"evaluate", "eval_item"}

\* the value of an attribute of a span, undefined when it is not set
AttrOf(span, key) ==
    IF \E x \in 1..Len(span.attrs) : span.attrs[x][1] = key
    THEN span.attrs[CHOOSE x \in 1..Len(span.attrs) : span.attrs[x][1] = key][2]
    ELSE Undef

\* the text a is the first characters of the text r, at most k of them
FirstChars(a, r, k) ==
    /\ Len(a) = IF Len(r) > k THEN k ELSE Len(r)
    /\ \A x \in 1..Len(a) : SubSeq(a, x, x) = SubSeq(r, x, x)

\* the rationale attribute of a span that carries a Score out
RationaleAttr(id) ==
    AttrOf(scSpans[id],
           IF SubSeq(scSpans[id].name, 1, 6) = "score." THEN "score.rationale"
           ELSE "eval.score.rationale")

\* the rationale that is sent out: the Score's, or the one of the options
\* of a call of score() by the application
RationaleSent ==
    IF scScore[2] = Undef THEN scOptions.rationale
    ELSE Get(scScore[2], "rationale")

\* C25: the rationale attribute of the scorer span and of the emitted score
\* span is the first 500 characters of the Score's rationale, so at most 500
\* characters, whatever the rationale's length; without a rationale, or
\* with an empty one, the attribute is not set.
C25_RationaleTruncated ==
    \A id \in 1..Len(scSpans) :
        LET r == RationaleSent
            a == RationaleAttr(id)
        IN  IF r.t = "string" /\ Len(r.s) > 0
            THEN /\ a.t = "string"
                 /\ Len(a.s) <= 500
                 /\ FirstChars(a.s, r.s, 500)
            ELSE a = Undef

\* a rationale longer than 500 characters has gone out on both spans, cut
C25_Witness ==
    /\ scPc = "done"
    /\ Len(scSpans) = 2
    /\ Len(Get(scScore[2], "rationale").s) > 500
    /\ Len(RationaleAttr(1).s) = 500
    /\ Len(RationaleAttr(2).s) = 500
    /\ scSpans[1].name = "eval_score." \o scScore[1]
    /\ scSpans[2].name = "score." \o scScore[1]

\* the lines of a text: its pieces between line breaks
RECURSIVE LinesFrom(_, _, _)
LinesFrom(text, x, cur) ==
    IF x > Len(text) THEN <<cur>>
    ELSE IF SubSeq(text, x, x) = "\n"
         THEN <<cur>> \o LinesFrom(text, x + 1, "")
         ELSE LinesFrom(text, x + 1, cur \o SubSeq(text, x, x))

Lines(text) == LinesFrom(text, 1, "")

\* the text shown is the number v to three decimal places: digits, a point
\* and three digits, a multiple of 1/1000 at most 1/2000 away from v, with
\* a minus sign exactly for a negative v; NaN is shown as NaN
ShowsRounded(shown, v) ==
    IF v.d = 0 THEN shown = "NaN"
    ELSE LET neg == Len(shown) > 0 /\ SubSeq(shown, 1, 1) = "-"
             body == IF neg THEN SubSeq(shown, 2, Len(shown)) ELSE shown
             whole == SubSeq(body, 1, Len(body) - 4)
             frac == SubSeq(body, Len(body) - 2, Len(body))
             a == IF v.n < 0 THEN 0 - v.n ELSE v.n
         IN  /\ neg <=> v.n < 0
             /\ Len(body) >= 5
             /\ SubSeq(body, Len(body) - 3, Len(body) - 3) = "."
             /\ IsDigits(whole) /\ IsDigits(frac)
             /\ LET k == 1000 * ParseNat(whole, Len(whole)) + ParseNat(frac, 3)
                    diff == k * v.d - 1000 * a
                IN  2 * (IF diff < 0 THEN 0 - diff ELSE diff) <= v.d

\* C26: formatEvalSummary returns a header line with the run name, the item
\* count and the error count, then one line per entry of summary.averages in
\* the mapping's order (1 + |averages| lines), each with the scorer name and
\* its mean rounded to three decimal places; a call changes neither the
\* summary nor anything outside, and every call on the same summary returns
\* the same text.
C26_FormatEvalSummary ==
    /\ [](\A c \in 1..Len(fmtOut) :
            LET L == Lines(fmtOut[c])
                avgs == fmtSummary.averages
            IN  /\ Len(L) = 1 + Len(avgs)
                /\ L[1] = "Eval: " \o fmtSummary.name \o " (" \o
                          NatToStr(fmtSummary.total) \o " samples, " \o
                          NatToStr(fmtSummary.errors) \o " errors)"
                /\ \A x \in 1..Len(avgs) :
                      LET line == L[x + 1]
                          lead == "  " \o avgs[x][1] \o ": "
                      IN  /\ Len(line) > Len(lead)
                          /\ SubSeq(line, 1, Len(lead)) = lead
                          /\ ShowsRounded(SubSeq(line, Len(lead) + 1, Len(line)),
                                          avgs[x][2])
                /\ fmtOut[c] = fmtOut[1])
    /\ [][/\ fmtSummary' = fmtSummary
          /\ UNCHANGED <<warnings, emitted, spans, scSpans>>]_vars

\* the summary of the example, formatted twice: two scorers, a mean of 2/3
\* shown as 0.667
C26_Witness ==
    /\ Len(fmtOut) = 2
    /\ fmtSummary.averages = << <<"s", Frac(2, 3)>>, <<"t", Num(1)>> >>
    /\ fmtSummary.total = 2 /\ fmtSummary.errors = 1
    /\ fmtOut[2] = "Eval: qa-eval (2 samples, 1 errors)\n  s: 0.667\n  t: 1.000"

\* the calls that are over: the wrapped function returned a value or threw,
\* or the Promise it returned has settled
Completed ==
    { c \in 1..Len(trCalls) :
        \/ trCalls[c].fn.how \in {"returned", "threw"}
        \/ trCalls[c].settled.how \in {"resolved", "rejected"} }

\* the places of a span among the finished spans
FinishedAt(id) == { x \in 1..Len(trFinished) : trFinished[x] = id }

\* C27: a wrapper is transparent: the caller gets exactly the value the
\* wrapped function returned, or a Promise that resolves to the value the
\* wrapped function's Promise resolved to; and each call starts one span
\* that carries the wrapper's name and, once the call is over, is finished
\* exactly once.
C27_WrapperTransparent ==
    /\ Len(trSpans) = Len(trCalls)
    /\ \A c \in 1..Len(trCalls) :
          LET call == trCalls[c]
          IN  /\ trSpans[call.span].name = call.wrapper.name
              /\ call.fn.how = "returned" => call.got = call.fn
              /\ call.fn.how = "promise" => call.got.how = "promise"
              /\ call.settled.how = "resolved" => call.gotSettled = call.settled
              /\ c \in Completed =>
                    /\ Cardinality(FinishedAt(call.span)) = 1
                    /\ trSpans[call.span].ended = 1

\* C28: when the wrapped function throws or its Promise rejects, the span
\* has status ERROR, one recorded exception and is ended exactly once, and
\* the caller gets the same error, thrown or as the rejection of the
\* wrapper's Promise.
C28_ErrorRecordedAndRethrown ==
    \A c \in 1..Len(trCalls) :
        LET call == trCalls[c]
            span == trSpans[call.span]
        IN  /\ call.fn.how = "threw" =>
                  /\ call.got = call.fn
                  /\ span.status = "ERROR" /\ span.exceptions = 1
                  /\ span.ended = 1 /\ Cardinality(FinishedAt(call.span)) = 1
            /\ call.settled.how = "rejected" =>
                  /\ call.gotSettled = call.settled
                  /\ span.status = "ERROR" /\ span.exceptions = 1
                  /\ span.ended = 1 /\ Cardinality(FinishedAt(call.span)) = 1

\* C29: every span of a wrapper carries traceloop.span.kind and
\* gen_ai.operation.name, both equal to the kind of the wrapper: workflow,
\* task, agent or tool.
C29_SpanKindAttributes ==
    \A c \in 1..Len(trCalls) :
        LET call == trCalls[c]
            span == trSpans[call.span]
        IN  /\ call.wrapper.kind \in {"workflow", "task", "agent", "tool"}
            /\ AttrOf(span, "traceloop.span.kind") = Str(call.wrapper.kind)
            /\ AttrOf(span, "gen_ai.operation.name") = Str(call.wrapper.kind)

\* C30: the span of a call made by a traced function has the caller's span
\* as its parent and the caller's trace identity, and it is finished before
\* the caller's span is finished.
C30_NestedSpans ==
    \A c \in 1..Len(trCalls) :
        LET inner == trCalls[c]
        IN  inner.caller # 0 =>
              LET outer == trCalls[inner.caller]
              IN  /\ trSpans[inner.span].parent = outer.span
                  /\ trTrace[inner.span] = trTrace[outer.span]
                  /\ \A y \in FinishedAt(outer.span) :
                        \E x \in FinishedAt(inner.span) : x < y

\* C31: the span of a call whose wrapped function returned a Promise is
\* open as long as the Promise is pending, the wrapper's return included,
\* and once the Promise has settled it has been ended exactly once: after a
\* resolution with the output recorded, after a rejection with the error
\* recorded.
C31_AsyncSpanEndsAtSettle ==
    \A c \in 1..Len(trCalls) :
        LET call == trCalls[c]
            span == trSpans[call.span]
        IN  call.fn.how = "promise" =>
              /\ call.settled.how = "none" =>
                    (span.ended = 0 /\ FinishedAt(call.span) = {})
              /\ call.settled.how = "resolved" =>
                    /\ span.ended = 1 /\ Cardinality(FinishedAt(call.span)) = 1
                    /\ span.status = "UNSET"
                    /\ ~Nullish(call.settled.val) =>
                          AttrOf(span, "gen_ai.entity.output").t = "string"
              /\ call.settled.how = "rejected" =>
                    /\ span.ended = 1 /\ Cardinality(FinishedAt(call.span)) = 1
                    /\ span.status = "ERROR" /\ span.exceptions = 1

\* the span of the call of score(), once the call is over
ScoreSpan == scSpans[Len(scSpans)]

\* a call of score() is over
ScoreCalled == scPc = "done" /\ scOptions # NoOptions

\* the span of a call of score() is the only span the call started, it is
\* ended, named score.<name>, and carries opensearch.score, score.name and
\* score.source, "sdk" by default
ScoreSpanBasics ==
    /\ Len(scSpans) = (IF scScore[2] = Undef THEN 1 ELSE 2)
    /\ ScoreSpan.name = "score." \o scOptions.name.s
    /\ ScoreSpan.ended = 1
    /\ AttrOf(ScoreSpan, "opensearch.score") = Bool(TRUE)
    /\ AttrOf(ScoreSpan, "score.name") = scOptions.name
    /\ AttrOf(ScoreSpan, "score.source") =
          (IF scOptions.source = Undef THEN Str("sdk") ELSE scOptions.source)

\* the optional attributes and the options they come from
OptionalAttrs ==
    { <<"score.value", scOptions.value>>, <<"score.trace_id", scOptions.traceId>>,
      <<"score.span_id", scOptions.spanId>>, <<"score.label", scOptions.label>>,
      <<"score.rationale", scOptions.rationale>> }

C33_SpansReleasedOnEveryExit ==
    /\ pc \in {"done", "threw"} => \A id \in 1..Len(spans) : spans[id].ended = 1
    /\ \A id \in 1..Len(spans) :
          /\ spans[id].ended <= 1
          /\ spans[id].ended = 1 =>
                \A child \in 1..Len(spans) :
                    spans[child].parent = id => spans[child].ended = 1

\* the average attributes of the run span, in the order they were set
AvgAttrs ==
    SelectSeq(spans[1].attrs,
              LAMBDA e : Len(e[1]) > 9 /\ SubSeq(e[1], 1, 9) = "eval.avg.")

\* C34: when the run span is closed the run is over, every datum has an
\* item span and every item span is closed; the run span carries one
\* average attribute per entry of summary.averages, with that entry's mean,
\* and the error count, equal to summary.errors of the returned summary.
C34_RunSpanClosedLast ==
    (Len(spans) >= 1 /\ spans[1].ended >= 1) =>
        /\ pc = "done"
        /\ spans[1].ended = 1
        /\ Cardinality(SpansOf("eval_item", 1)) = Len(data)
        /\ \A id \in SpansOf("eval_item", 1) : spans[id].ended = 1
        /\ AvgAttrs = [x \in 1..Len(summary.averages) |->
                          <<"eval.avg." \o summary.averages[x][1],
                            summary.averages[x][2]>>]
        /\ AttrOf(spans[1], "eval.errors") = Num(summary.errors)
        /\ summary.errors = Cardinality({x \in 1..Len(summary.results) :
                                            summary.results[x].hasError})

\* a run of two items is over: one item failed, two scorers have averages
C34_Witness ==
    /\ pc = "done"
    /\ Len(data) = 2
    /\ spans[1].ended = 1
    /\ summary.errors = 1
    /\ Len(summary.averages) = 2
    /\ Len(AvgAttrs) = 2

\* the scorer invocation that ends with this step left a Score: the entry
\* under the scorer's name is the adapted form of what the scorer returned
LeftScore ==
    LET e == log'[Len(log')]
    IN  /\ e.how = "returned"
        /\ ~adaptScore(e.name, e.val).threw
        /\ HasEntry(evalResult'.scores, e.name)
        /\ GetEntry(evalResult'.scores, e.name) = adaptScore(e.name, e.val).v

\* C35: when a scorer invocation ends, its span has error status exactly
\* when the invocation left no Score in the scores of the item's result.
C35_ErrorStatusIffNoScore ==
    [][(pc = "scorer" /\ pc' = "scoring") =>
          (spans'[callSpan].status = "ERROR" <=> ~LeftScore)]_vars

\* an item has been started and its result is not appended yet
InFlight == pc \in {"task", "scorer", "scoring", "emit", "append"}

\* the items started so far
Started == i + (IF InFlight THEN 1 ELSE 0)

\* the items processed so far whose result carries an error
Failed ==
    Cardinality({x \in 1..Len(summary.results) : summary.results[x].hasError})
        + (IF InFlight /\ evalResult.hasError THEN 1 ELSE 0)

\* C36: at every point of a run the number of appended results is at most
\* total and equals the number of item spans already closed, and
\* summary.errors is the number of items processed so far whose result
\* carries an error; errors never exceeds the number of items started and
\* never decreases.
C36_LoopInvariant ==
    /\ [](pc # "start" =>
            /\ Len(summary.results) <= summary.total
            /\ Len(summary.results) =
                   Cardinality({id \in SpansOf("eval_item", 1) : spans[id].ended >= 1})
            /\ summary.errors = Failed
            /\ summary.errors <= Started)
    /\ [][summary'.errors >= summary.errors]_vars

\* the first item's result is appended and the second is about to be; the
\* task failed for both
C36_Witness ==
    /\ pc = "append"
    /\ Len(summary.results) = 1
    /\ summary.total = 2
    /\ summary.errors = 2
    /\ evalResult.hasError

\* C37: adapting the Score adaptScore returned once more under the same
\* scorer name gives a Score with the same name, value, label, rationale
\* and metadata, whichever rule the first application took.
C37_AdaptScoreIdempotent ==
    adaptPc = "again" =>
        /\ ~adaptAgain.threw
        /\ \A k \in {"name", "value", "label", "rationale", "metadata"} :
               Get(adaptAgain.v, k) = Get(adaptOut.v, k)

====
